---------------------------- MODULE Spec2Model ----------------------------
(***************************************************************************)
(* Form definition / response submission / validation pipeline of the      *)
(* form-builder dashboard.                                                  *)
(*                                                                          *)
(* Strings are sequences of one-character strings over Alphabet, so that    *)
(* trim(), split(',') and the regular expressions of the field validators   *)
(* are computed character by character.  The alphabet has no "0", "e",      *)
(* "x", "o" or "I", so every numeric literal over it is a plain signed      *)
(* decimal; it has no "/" and none of the letters of a month, a day, a time *)
(* zone, "T" or "Z", so the URL constructor sees opaque schemes only and    *)
(* Date.parse sees numbers, signs, colons, dots, parentheses and unknown    *)
(* words.                                                                   *)
(***************************************************************************)
EXTENDS Integers, Sequences, FiniteSets, TLC

(***************************************************************************)
(* Bounds of the model.                                                     *)
(***************************************************************************)
\* The handlers are only run while fewer than MaxResponses rows are stored.
MaxResponses == 3
\* Longest `fields` array of a request body in the validation payloads.
MaxEntries == 2
\* With the payloads of ValidationRequests and of PostedResponses a request is
\* only taken up while fewer than MaxValidated rows are stored.
MaxValidated == 1
\* settings.maxSubmissions of the capped form.
LimitN == 2
\* Number of request handlers that may be in flight at once.
NumHandlers == 2
\* Fields created through POST /fields that exist at one time.
MaxCreated == 1
\* Longest batch of a bulk order update.
MaxBatch == 2
\* Responses stored when an export is generated.
MaxExported == 2
\* Forms created through POST /api/forms that exist at one time.
MaxCreatedForms == 1

(***************************************************************************)
(* Characters and JavaScript string primitives.                             *)
(***************************************************************************)
Digits == {"1", "5", "7"}
Whitespace == {" ", "\n"}
Letters == {"a", "b", "c", "A"}
Alphabet == Letters \cup {"@", ".", ",", ";", ":", "\"", "+", "-", "(", ")"}
              \cup Digits \cup Whitespace

\* The empty string ''.
Empty == << >>

\* s.slice(i - 1, j): the characters at 1-based positions i..j.
Slice(s, i, j) == [k \in 1..(j - i + 1) |-> s[i + k - 1]]

\* String.prototype.trim: drop leading and trailing white space.
Trim(s) ==
  LET keep == {i \in 1..Len(s) : s[i] \notin Whitespace}
  IN  IF keep = {} THEN Empty
      ELSE LET lo == CHOOSE i \in keep : \A j \in keep : i <= j
               hi == CHOOSE i \in keep : \A j \in keep : j <= i
           IN  Slice(s, lo, hi)

\* String.prototype.split(','): the pieces between the commas, in order; a
\* string without comma is its own single piece and '' gives [''].
RECURSIVE Split(_)
Split(s) ==
  LET commas == {i \in 1..Len(s) : s[i] = ","}
  IN  IF commas = {} THEN << s >>
      ELSE LET c == CHOOSE i \in commas : \A j \in commas : i <= j
           IN  << Slice(s, 1, c - 1) >> \o Split(Slice(s, c + 1, Len(s)))

\* value.replace(/[\s\-\(\)]/g, ''): remove every blank, hyphen and parenthesis.
RECURSIVE StripPhoneChars(_)
StripPhoneChars(s) ==
  IF s = Empty THEN Empty
  ELSE (IF Head(s) \in Whitespace \cup {"-", "(", ")"} THEN Empty ELSE << Head(s) >>)
         \o StripPhoneChars(Tail(s))

\* Array.prototype.includes on a list of strings.
Includes(list, x) == \E i \in 1..Len(list) : list[i] = x

AllIn(s, set) == \A i \in 1..Len(s) : s[i] \in set

DigitValue(d) == CASE d = "1" -> 1 [] d = "5" -> 5 [] d = "7" -> 7

\* The integer written by a string of digits ('' counts as 0).
RECURSIVE DecimalValue(_)
DecimalValue(ds) ==
  IF ds = Empty THEN 0
  ELSE 10 * DecimalValue(Slice(ds, 1, Len(ds) - 1)) + DigitValue(ds[Len(ds)])

(***************************************************************************)
(* Number(value): white space is trimmed, '' is 0, and over Alphabet the    *)
(* only numeric literals are  [+-]? ( D+ ( '.' D* )? | '.' D+ ).            *)
(* The result is [nan, neg, int, frac]: the integer part and whether a      *)
(* non-zero fraction follows (every digit of Alphabet is non-zero).         *)
(***************************************************************************)
\* The first '.' of the literal, or one past its end.
FirstDot(body) ==
  LET dots == {i \in 1..Len(body) : body[i] = "."}
  IN  IF dots = {} THEN Len(body) + 1
      ELSE CHOOSE i \in dots : \A j \in dots : i <= j

NaN == [nan |-> TRUE, neg |-> FALSE, int |-> 0, frac |-> FALSE]

\* The digits ip before and fp after the point of a literal.
DecimalLiteral(neg, ip, fp) ==
  IF AllIn(ip, Digits) /\ AllIn(fp, Digits) /\ Len(ip) + Len(fp) > 0
  THEN [nan |-> FALSE, neg |-> neg, int |-> DecimalValue(ip), frac |-> fp # Empty]
  ELSE NaN

UnsignedLiteral(neg, body, dot) ==
  DecimalLiteral(neg, Slice(body, 1, dot - 1), Slice(body, dot + 1, Len(body)))

StrNumericLiteral(t) ==
  IF t = Empty THEN [nan |-> FALSE, neg |-> FALSE, int |-> 0, frac |-> FALSE]
  ELSE IF t[1] \in {"+", "-"}
       THEN UnsignedLiteral(t[1] = "-", Tail(t), FirstDot(Tail(t)))
       ELSE UnsignedLiteral(FALSE, t, FirstDot(t))

Number(value) == StrNumericLiteral(Trim(value))

\* /^[^\s@]+@[^\s@]+\.[^\s@]+$/.test(value)
EmailRegex(value) ==
  \E i \in 1..Len(value) : \E j \in 1..Len(value) :
     /\ 1 < i /\ i + 1 < j /\ j < Len(value)
     /\ value[i] = "@" /\ value[j] = "."
     /\ \A k \in 1..Len(value) :
           k # i => value[k] \notin Whitespace \cup {"@"}

\* /^[\+]?[1-9][\d]{0,15}$/.test(s)
PhoneRegex(s) ==
  LET body == IF s # Empty /\ s[1] = "+" THEN Tail(s) ELSE s
  IN  /\ Len(body) >= 1 /\ Len(body) <= 16
      /\ AllIn(body, Digits)

(***************************************************************************)
(* new URL(value) without a base.  The parser drops leading and trailing    *)
(* C0 control characters and spaces, then every tab and newline, and reads  *)
(* a scheme: a letter, then letters, digits, '+', '-' and '.', up to the    *)
(* first ':'.  Without such a scheme the constructor throws.  Over Alphabet *)
(* no special scheme (http, https, ftp, ws, wss, file) can be written and   *)
(* no '/' follows the colon, so the rest is an opaque path, which takes     *)
(* every character.                                                         *)
(***************************************************************************)
RECURSIVE RemoveNewlines(_)
RemoveNewlines(s) ==
  IF s = Empty THEN Empty
  ELSE (IF Head(s) = "\n" THEN Empty ELSE << Head(s) >>) \o RemoveNewlines(Tail(s))

\* The input has a scheme that ends at its first ':'.
HasScheme(input) ==
  \E c \in 2..Len(input) :
     /\ input[c] = ":"
     /\ input[1] \in Letters
     /\ \A k \in 2..(c - 1) : input[k] \in Letters \cup Digits \cup {"+", "-", "."}

\* new URL(value) does not throw.
UrlParses(value) == HasScheme(RemoveNewlines(Trim(value)))

(***************************************************************************)
(* Date.parse(value) as the JavaScript engine of the server computes it     *)
(* (V8, DateParser::Parse): the ES5 date format first (ParseES5DateTime)    *)
(* and then the legacy parser from the first token that format does not     *)
(* take.  Over Alphabet no keyword can be written (month names, AM, PM,     *)
(* UTC, GMT, Z, T, zone names), so the ES5 format takes a year of four      *)
(* digits, or of six digits after a sign, then '-' and a month of two       *)
(* digits, then '-' and a day of two digits, all as date components         *)
(* whatever follows them; a string that ends there is an ISO date.  The     *)
(* rules of the legacy parser: a number followed by ':' is a time           *)
(* component; a number after '.' or alone where the time expects one        *)
(* completes the time; a sign after a time starts a zone offset; any other  *)
(* number is a date component, at most three; words and signs before the    *)
(* first number and text in parentheses are ignored; words, signs and ')'   *)
(* after a number make the string invalid.  st is the state of the parser:  *)
(* whether it has failed, whether a number has been read, whether the       *)
(* string is an ISO date, and the components of DayComposer, TimeComposer   *)
(* and TimeZoneComposer.                                                    *)
(***************************************************************************)
\* The characters of `set` from position i on, up to the first other one.
RECURSIVE Run(_, _, _)
Run(s, i, set) ==
  IF i <= Len(s) /\ s[i] \in set THEN << s[i] >> \o Run(s, i + 1, set) ELSE Empty

\* The character of the next token, if there is one.
Peek(s, i) == IF i <= Len(s) THEN s[i] ELSE "end of input"

\* ReadUnsignedNumeral: the number of the first nine digits.
ReadUnsignedNumeral(ds) == DecimalValue(Slice(ds, 1, IF Len(ds) < 9 THEN Len(ds) ELSE 9))

\* ReadMilliseconds: the first three digits of the fraction, as milliseconds.
ReadMilliseconds(ds) ==
  CASE Len(ds) = 1 -> 100 * DecimalValue(ds)
    [] Len(ds) = 2 -> 10 * DecimalValue(ds)
    [] OTHER -> DecimalValue(Slice(ds, 1, 3))

\* The position after the parenthesized text that starts at i (SkipParentheses).
RECURSIVE SkipParentheses(_, _, _)
SkipParentheses(s, i, balance) ==
  IF s[i] = ")" /\ balance = 1 THEN i + 1
  ELSE IF i = Len(s) THEN i + 1
  ELSE SkipParentheses(s, i + 1,
          IF s[i] = "(" THEN balance + 1 ELSE IF s[i] = ")" THEN balance - 1 ELSE balance)

NoDate == [ok |-> TRUE, num |-> FALSE, iso |-> FALSE, day |-> << >>, time |-> << >>,
           sign |-> FALSE, hour |-> << >>, minute |-> << >>]
Failed(st) == [st EXCEPT !.ok = FALSE]

\* A sequence filled up to n elements with x.
Pad(seq, n, x) == [k \in 1..n |-> IF k <= Len(seq) THEN seq[k] ELSE x]

\* TimeComposer::IsExpecting: the next of minute, second and millisecond.
TimeExpecting(time, n) ==
  \/ Len(time) \in {1, 2} /\ n <= 59
  \/ Len(time) = 3 /\ n <= 999

\* TimeComposer::AddFinal: the last component, the rest are 0.
AddFinal(time, n) == Pad(IF Len(time) < 4 THEN Append(time, n) ELSE time, 4, 0)

\* TimeZoneComposer::IsExpecting: the minutes of an offset whose hour was
\* followed by ':'.
ZoneExpecting(st, n) == st.hour # << >> /\ st.minute = << >> /\ n <= 59

RECURSIVE LegacyDate(_, _, _)

\* A number n that is not followed by ':'; p is the position after it and
\* after the '.' that followed it, if one did (dot).
LegacyDateComponent(s, p, dot, n, st) ==
  IF dot /\ TimeExpecting(st.time, n)
  THEN IF Peek(s, p) \in Digits
       THEN LegacyDate(s, p + Len(Run(s, p, Digits)),
               [st EXCEPT !.time = AddFinal(Append(@, n),
                                            ReadMilliseconds(Run(s, p, Digits)))])
       ELSE Failed(st)
  ELSE IF ZoneExpecting(st, n)
  THEN LegacyDate(s, p, [st EXCEPT !.minute = << n >>])
  ELSE IF TimeExpecting(st.time, n)
  THEN IF Peek(s, p) \in {"end of input", "+", "-"} \cup Whitespace
       THEN LegacyDate(s, p, [st EXCEPT !.time = AddFinal(@, n)])
       ELSE Failed(st)
  ELSE IF Len(st.day) = 3 THEN Failed(st)
  ELSE LegacyDate(s, IF Peek(s, p) = "-" THEN p + 1 ELSE p,
                  [st EXCEPT !.day = Append(@, n)])

\* A number n; p is the position after it.
LegacyNumber(s, p, n, st) ==
  IF Peek(s, p) = ":"
  THEN IF Peek(s, p + 1) = ":"
       THEN IF st.time # << >> THEN Failed(st)
            ELSE LegacyDate(s, p + 2, [st EXCEPT !.time = << n, 0 >>])
       ELSE IF Len(st.time) = 4 THEN Failed(st)
            ELSE LegacyDate(s, IF Peek(s, p + 1) = "." THEN p + 2 ELSE p + 1,
                            [st EXCEPT !.time = Append(@, n)])
  ELSE LegacyDateComponent(s, IF Peek(s, p) = "." THEN p + 1 ELSE p,
                           Peek(s, p) = ".", n, st)

\* The offset of a time zone: the digits ds after the sign; p is the position
\* after them.
LegacyOffset(s, p, ds, st) ==
  IF Peek(s, p) = ":"
  THEN LegacyDate(s, p, [st EXCEPT !.hour = << ReadUnsignedNumeral(ds) >>,
                                   !.minute = << >>])
  ELSE IF Len(ds) \in {1, 2}
  THEN LegacyDate(s, p, [st EXCEPT !.hour = << ReadUnsignedNumeral(ds) >>,
                                   !.minute = << 0 >>])
  ELSE IF Len(ds) \in {3, 4}
  THEN LegacyDate(s, p, [st EXCEPT !.hour = << ReadUnsignedNumeral(ds) \div 100 >>,
                                   !.minute = << ReadUnsignedNumeral(ds) % 100 >>])
  ELSE Failed(st)

\* The tokens from position i on.
LegacyDate(s, i, st) ==
  IF ~st.ok \/ i > Len(s) THEN st
  ELSE IF s[i] \in Digits
  THEN LegacyNumber(s, i + Len(Run(s, i, Digits)),
                    ReadUnsignedNumeral(Run(s, i, Digits)), [st EXCEPT !.num = TRUE])
  ELSE IF s[i] \in Letters
  THEN IF st.num \/ Peek(s, i + Len(Run(s, i, Letters))) \in Digits
       THEN Failed(st)
       ELSE LegacyDate(s, i + Len(Run(s, i, Letters)), st)
  ELSE IF s[i] \in {"+", "-"} /\ (st.time # << >> \/ (st.hour = << 0 >> /\ st.minute = << 0 >>))
  THEN LegacyOffset(s, i + 1 + Len(Run(s, i + 1, Digits)), Run(s, i + 1, Digits),
                    [st EXCEPT !.sign = TRUE, !.num = TRUE])
  ELSE IF s[i] \in {"+", "-", ")"}
  THEN IF st.num THEN Failed(st) ELSE LegacyDate(s, i + 1, st)
  ELSE IF s[i] = "("
  THEN LegacyDate(s, SkipParentheses(s, i, 0), st)
  ELSE LegacyDate(s, i + 1, st)

\* DayComposer::IsMonth and DayComposer::IsDay
IsMonth(x) == x \in 1..12
IsDay(x) == x \in 1..31

\* The string is an ES5 date when it ends at position p; what follows is for
\* the legacy parser.  An ES5 date without a time is in UTC (tz.Set(0)).
ES5End(s, p, st) ==
  IF p > Len(s)
  THEN [st EXCEPT !.iso = TRUE, !.sign = TRUE, !.hour = << 0 >>, !.minute = << 0 >>]
  ELSE LegacyDate(s, p, st)

\* The day of the month of an ES5 date: '-' and two digits, from position p.
ES5DayOfMonth(s, p, st) ==
  IF Peek(s, p) # "-" THEN ES5End(s, p, st)
  ELSE IF Len(Run(s, p + 1, Digits)) = 2 /\ IsDay(ReadUnsignedNumeral(Run(s, p + 1, Digits)))
  THEN ES5End(s, p + 3,
              [st EXCEPT !.day = Append(@, ReadUnsignedNumeral(Run(s, p + 1, Digits)))])
  ELSE LegacyDate(s, p + 1, st)

\* The month of an ES5 date: '-' and two digits, from position p.
ES5Month(s, p, st) ==
  IF Peek(s, p) # "-" THEN ES5End(s, p, st)
  ELSE IF Len(Run(s, p + 1, Digits)) = 2 /\ IsMonth(ReadUnsignedNumeral(Run(s, p + 1, Digits)))
  THEN ES5DayOfMonth(s, p + 3,
              [st EXCEPT !.day = Append(@, ReadUnsignedNumeral(Run(s, p + 1, Digits)))])
  ELSE LegacyDate(s, p + 1, st)

\* ParseES5DateTime and the legacy parser after it: a year of six digits
\* after a sign or of four digits starts an ES5 date; a sign that starts
\* none is a token of the legacy parser, which ignores it.
ParseES5DateTime(s) ==
  IF Peek(s, 1) \in {"+", "-"}
  THEN IF Len(Run(s, 2, Digits)) = 6
       THEN ES5Month(s, 8,
               [NoDate EXCEPT !.num = TRUE,
                              !.day = << (IF s[1] = "-" THEN -1 ELSE 1)
                                           * ReadUnsignedNumeral(Run(s, 2, Digits)) >>])
       ELSE LegacyDate(s, 2, NoDate)
  ELSE IF Len(Run(s, 1, Digits)) = 4
  THEN ES5Month(s, 5, [NoDate EXCEPT !.num = TRUE,
                                     !.day = << ReadUnsignedNumeral(Run(s, 1, Digits)) >>])
  ELSE LegacyDate(s, 1, NoDate)

\* The year of a legacy date: 0..49 is 2000..2049 and 50..99 is 1950..1999.
LegacyYear(year) ==
  IF year \in 0..49 THEN year + 2000 ELSE IF year \in 50..99 THEN year + 1900 ELSE year

\* TimeClip: the time value of the date is within 100,000,000 days of
\* 1 January 1970, which ends in the years -271821 and 275760; no number over
\* Digits is one of the two.
YearInRange(year) == year > -271821 /\ year < 275760

\* DayComposer::Write on the components filled up with 1: year, month, day
\* for an ISO date and when the first is no day of a month, else month, day,
\* year; the year of an ISO date is taken as written.
DayWrites(comp, iso) ==
  IF iso \/ ~IsDay(comp[1])
  THEN /\ IsMonth(comp[2]) /\ IsDay(comp[3])
       /\ YearInRange(IF iso THEN comp[1] ELSE LegacyYear(comp[1]))
  ELSE IsMonth(comp[1]) /\ IsDay(comp[2]) /\ YearInRange(LegacyYear(comp[3]))

\* TimeComposer::Write on the components filled up with 0.
TimeWrites(comp) ==
  \/ comp[1] <= 23 /\ comp[2] <= 59 /\ comp[3] <= 59 /\ comp[4] <= 999
  \/ comp = << 24, 0, 0, 0 >>

\* The upper 16 bits of hour * 3600 + minute * 60 as an unsigned integer of
\* 32 bits, computed on halves of 16 bits.
OffsetHigh(hour, minute) ==
  (3600 * (hour \div 65536) + (3600 * (hour % 65536) + 60 * minute) \div 65536) % 65536

\* TimeZoneComposer::Write: the offset in seconds, an unsigned integer of 32
\* bits, is at most Smi::kMaxValue (2^31 - 1).
ZoneWrites(st) ==
  st.sign => OffsetHigh(Pad(st.hour, 1, 0)[1], Pad(st.minute, 1, 0)[1]) < 32768

\* The parser has read a date.
DateWritten(st) ==
  /\ st.ok
  /\ st.day # << >>
  /\ DayWrites(Pad(st.day, 3, 1), st.iso)
  /\ TimeWrites(Pad(st.time, 4, 0))
  /\ ZoneWrites(st)

\* !isNaN(Date.parse(value))
DateParses(value) == DateWritten(ParseES5DateTime(value))

(***************************************************************************)
(* Field types and the validator table.                                     *)
(***************************************************************************)
FieldTypes == {"SHORT_TEXT", "LONG_TEXT", "EMAIL", "PHONE", "NUMBER", "URL", "DATE",
               "DROPDOWN", "RADIO", "CHECKBOX", "RATING", "FILE_UPLOAD", "SECTION"}

\* !isNaN(num) && num >= 1 && num <= 5
RatingInRange(num) ==
  /\ ~num.nan /\ ~num.neg
  /\ \/ num.int >= 1 /\ num.int <= 4
     \/ num.int = 5 /\ ~num.frac

\* fieldValidators[type](value)
fieldValidators(type, value) ==
  CASE type \in {"SHORT_TEXT", "LONG_TEXT"} -> Len(Trim(value)) > 0
    [] type = "EMAIL"  -> EmailRegex(value)
    [] type = "PHONE"  -> PhoneRegex(StripPhoneChars(value))
    [] type = "NUMBER" -> ~Number(value).nan /\ Trim(value) # Empty
    [] type = "URL"    -> UrlParses(value)
    [] type = "DATE"   -> DateParses(value)
    [] type \in {"DROPDOWN", "RADIO", "CHECKBOX", "FILE_UPLOAD"} -> Trim(value) # Empty
    [] type = "RATING" -> RatingInRange(Number(value))
    [] type = "SECTION" -> TRUE

(***************************************************************************)
(* The database.  form maps the id of every stored form to its row;         *)
(* formField, formResponse and responseField are the tables of the same     *)
(* names, in insertion order.  handler holds the invocations of the route   *)
(* handlers, which run interleaved at their awaited calls.  req and res are *)
(* the latest request that went through the rate limiter and the reply it   *)
(* got there.                                                               *)
(***************************************************************************)
VARIABLES form, formField, formResponse, responseField, req, res, handler

vars == << form, formField, formResponse, responseField, req, res, handler >>
tables == << formResponse, responseField >>

\* An absent respondentEmail in a request body, and a NULL column.
Undefined == << "undefined" >>
Null == << "null" >>

OptA == << "a" >>
OptB == << "b" >>
Blank == << " " >>
GoodAddress == << "a", "@", "b", ".", "a" >>
LowerEmail == << "a", "@", "b", ".", "a", "b" >>
UpperEmail == << "A", "@", "b", ".", "a", "b" >>

GhostForm == "F0"

\* The forms of the seeded database: F1 has every kind of validated field and
\* prevents duplicates, F2 carries the submission limit, F3 and F4 are not
\* published, F5 has a required section and nothing else.
SeedForms(limit) ==
  [F1 |-> [status |-> "PUBLISHED",
           settings |-> [maxSubmissions |-> 0, preventDuplicates |-> TRUE]],
   F2 |-> [status |-> "PUBLISHED",
           settings |-> [maxSubmissions |-> limit, preventDuplicates |-> FALSE]],
   F3 |-> [status |-> "DRAFT",
           settings |-> [maxSubmissions |-> 0, preventDuplicates |-> FALSE]],
   F4 |-> [status |-> "ARCHIVED",
           settings |-> [maxSubmissions |-> 0, preventDuplicates |-> FALSE]],
   F5 |-> [status |-> "PUBLISHED",
           settings |-> [maxSubmissions |-> 0, preventDuplicates |-> FALSE]]]

Field(id, formId, type, label, required, options, order) ==
  [id |-> id, formId |-> formId, type |-> type, label |-> label,
   required |-> required, options |-> options, order |-> order]

\* The rows of formField in the seeded database, not in display order.
SeedFields ==
  << Field("plan",  "F1", "DROPDOWN",   "Plan",  FALSE, << OptA, OptB >>, 1),
     Field("email", "F1", "EMAIL",      "Email", TRUE,  << >>, 0),
     Field("size",  "F1", "RADIO",      "Size",  FALSE, << OptA, OptB >>, 3),
     Field("tags",  "F1", "CHECKBOX",   "Tags",  FALSE, << OptA, OptB >>, 2),
     Field("stars", "F1", "RATING",     "Stars", FALSE, << >>, 4),
     Field("name",  "F2", "SHORT_TEXT", "Name",  TRUE,  << >>, 0),
     Field("note",  "F3", "LONG_TEXT",  "Note",  TRUE,  << >>, 0),
     Field("score", "F4", "RATING",     "Score", TRUE,  << >>, 0),
     Field("intro", "F5", "SECTION",    "Intro", TRUE,  << >>, 0) >>

(***************************************************************************)
(* Queries of the ORM.                                                      *)
(***************************************************************************)
\* orderBy: { order: 'asc' }: rows by ascending order, ties in table order.
RECURSIVE OrderByOrder(_)
OrderByOrder(rows) ==
  IF rows = << >> THEN << >>
  ELSE LET m == CHOOSE i \in 1..Len(rows) :
                  \A j \in 1..Len(rows) :
                     \/ rows[i].order < rows[j].order
                     \/ rows[i].order = rows[j].order /\ i <= j
           rest == [k \in 1..(Len(rows) - 1) |-> IF k < m THEN rows[k] ELSE rows[k + 1]]
       IN  << rows[m] >> \o OrderByOrder(rest)

\* db.form.findUnique({ where: { id }, include: { fields: { orderBy } } }).fields
FormFields(formId) ==
  LET OfForm(f) == f.formId = formId
  IN  OrderByOrder(SelectSeq(formField, OfForm))

\* A count that leaves out the rows still NEW.
ResponseCountSeen(rows, formId) ==
  Cardinality({i \in 1..Len(rows) : rows[i].formId = formId /\ rows[i].status # "NEW"})

\* db.formResponse.count({ where: { formId } })
ResponseCount(rows, formId) ==
  Cardinality({i \in 1..Len(rows) : rows[i].formId = formId})

\* A lookup by address that forgets the form.
ExistingResponseAnyForm(rows, formId, respondentEmail) ==
  \E i \in 1..Len(rows) : rows[i].respondentEmail = respondentEmail

\* db.formResponse.findFirst({ where: { formId, respondentEmail } }) finds a row.
ExistingResponse(rows, formId, respondentEmail) ==
  \E i \in 1..Len(rows) :
     rows[i].formId = formId /\ rows[i].respondentEmail = respondentEmail

(***************************************************************************)
(* Request bodies and replies.                                              *)
(***************************************************************************)
\* The part of an address after '@': labels of letters, digits and '-' that
\* start with a letter or digit, each followed by '.', and then two or more
\* letters.  d is the position of the last '.'.
ZodDomain(domain, d) ==
  /\ d + 2 <= Len(domain)
  /\ \A k \in (d + 1)..Len(domain) : domain[k] \in Letters
  /\ \A k \in 1..d :
        IF domain[k] = "."
        THEN k > 1 /\ domain[k - 1] # "."
        ELSE /\ domain[k] \in Letters \cup Digits \cup {"-"}
             /\ (k = 1 \/ domain[k - 1] = ".") => domain[k] # "-"

\* The part of an address before '@': letters, digits, '+', '-' and '.' (and
\* '_' and an apostrophe, which Alphabet lacks), no '.' at the start or the
\* end and no two in a row.
ZodLocal(local) ==
  /\ local # Empty
  /\ AllIn(local, Letters \cup Digits \cup {"+", "-", "."})
  /\ local[1] # "." /\ local[Len(local)] # "."
  /\ \A k \in 2..Len(local) : ~(local[k - 1] = "." /\ local[k] = ".")

\* z.string().email() of zod 3, whose pattern is
\* /^(?!\.)(?!.*\.\.)([A-Z0-9_'+\-\.]*)[A-Z0-9_+-]@([A-Z0-9][A-Z0-9\-]*\.)+[A-Z]{2,}$/i
ZodEmail(s) ==
  \E at \in 1..Len(s) : \E d \in 1..Len(s) :
     /\ s[at] = "@"
     /\ at < d /\ s[d] = "." /\ \A k \in (d + 1)..Len(s) : s[k] # "."
     /\ ZodLocal(Slice(s, 1, at - 1))
     /\ ZodDomain(Slice(s, at + 1, Len(s)), d - at)

\* submitFormSchema of the submit route: respondentEmail is an optional email
\* address or the literal ''.
SubmitSchemaOk(body) ==
  \/ body.respondentEmail = Undefined
  \/ body.respondentEmail = Empty
  \/ ZodEmail(body.respondentEmail)

\* submitFormSchema of the responses route: respondentEmail is an optional
\* email address.
ResponsesSchemaOk(body) ==
  \/ body.respondentEmail = Undefined
  \/ ZodEmail(body.respondentEmail)

\* Truthiness of a string or undefined.
Truthy(s) == s # Undefined /\ s # Empty

Reply(status, error, details) ==
  [status |-> status, error |-> error, details |-> details]

NoRequest == [route |-> "none", formId |-> GhostForm,
              respondentEmail |-> Undefined, fields |-> << >>]
NoReply == Reply(0, "", << >>)

RequiredError(label) == [kind |-> "required", label |-> label, value |-> Empty]
InvalidDataError(label) == [kind |-> "invalid data", label |-> label, value |-> Empty]
InvalidOptionError(label, value) ==
  [kind |-> "invalid option", label |-> label, value |-> value]

(***************************************************************************)
(* The checks of the submission handlers.                                   *)
(***************************************************************************)
\* form.status !== 'PUBLISHED'
NotPublished(f) == f.status # "PUBLISHED"

\* settings.maxSubmissions && settings.maxSubmissions > 0, then
\* responseCount >= settings.maxSubmissions
LimitReached(settings, responseCount) ==
  /\ settings.maxSubmissions > 0
  /\ responseCount >= settings.maxSubmissions

\* validatedData.fields.find(f => f.fieldId === field.id): the position of the
\* first entry of the field, 0 when there is none.
FindEntry(entries, fieldId) ==
  LET hits == {i \in 1..Len(entries) : entries[i].fieldId = fieldId}
  IN  IF hits = {} THEN 0 ELSE CHOOSE i \in hits : \A j \in hits : i <= j

\* The loop over requiredFields: one error for a required field without entry
\* or whose entry found is blank.
RECURSIVE RequiredErrors(_, _)
RequiredErrors(fields, entries) ==
  IF fields = << >> THEN << >>
  ELSE LET field == Head(fields)
           at    == FindEntry(entries, field.id)
           here  == IF ~field.required THEN << >>
                    ELSE IF at = 0 THEN << RequiredError(field.label) >>
                    ELSE IF Trim(entries[at].value) = Empty
                         THEN << RequiredError(field.label) >>
                    ELSE << >>
       IN  here \o RequiredErrors(Tail(fields), entries)

\* The loop over submittedValues: the first token that is non-empty after
\* trimming and not among the options, as a list of at most one error.
RECURSIVE FirstInvalidOption(_, _, _)
FirstInvalidOption(label, validOptions, submittedValues) ==
  IF submittedValues = << >> THEN << >>
  ELSE LET value == Trim(Head(submittedValues))
       IN  IF value # Empty /\ ~Includes(validOptions, value)
           THEN << InvalidOptionError(label, value) >>
           ELSE FirstInvalidOption(label, validOptions, Tail(submittedValues))

\* The body of the loop over the submitted entries, for an entry of a known field.
EntryErrors(field, value) ==
  (IF field.type \in FieldTypes /\ Trim(value) # Empty
        /\ ~fieldValidators(field.type, value)
   THEN << InvalidDataError(field.label) >> ELSE << >>)
  \o
  (IF field.type \in {"DROPDOWN", "RADIO", "CHECKBOX"} /\ Len(field.options) > 0
   THEN FirstInvalidOption(field.label, field.options, Split(value))
   ELSE << >>)

\* The loop over validatedData.fields; fieldMap.get(fieldId) is undefined for
\* an entry of no field of the form, which is skipped.
RECURSIVE TypeErrors(_, _)
TypeErrors(fields, entries) ==
  IF entries = << >> THEN << >>
  ELSE LET submittedField == Head(entries)
           known == {i \in 1..Len(fields) : fields[i].id = submittedField.fieldId}
           here  == IF known = {} THEN << >>
                    ELSE EntryErrors(fields[CHOOSE i \in known : TRUE],
                                     submittedField.value)
       IN  here \o TypeErrors(fields, Tail(entries))

\* validationErrors when the field checks of the submit route are done.
validationErrors(fields, entries) ==
  RequiredErrors(fields, entries) \o TypeErrors(fields, entries)

\* The row written by db.formResponse.create; no request of the model carries
\* client headers, so the address and the agent are 'unknown'.
NewResponse(id, formId, respondentEmail) ==
  [id |-> id, formId |-> formId, respondentEmail |-> respondentEmail,
   ipAddress |-> "unknown", userAgent |-> "unknown", status |-> "NEW"]

\* validatedData.respondentEmail || null
EmailOrNull(respondentEmail) ==
  IF Truthy(respondentEmail) THEN respondentEmail ELSE Null

\* The id of the next row of formResponse: the first one no stored row has.
NextResponseId(rows) ==
  CHOOSE n \in 1..(Len(rows) + 1) :
     /\ \A i \in 1..Len(rows) : rows[i].id # n
     /\ \A m \in 1..(n - 1) : \E i \in 1..Len(rows) : rows[i].id = m

ValueRow(responseId, entry) ==
  [responseId |-> responseId, fieldId |-> entry.fieldId, value |-> entry.value]

\* Value rows built without skipping the blank entries.
responseFieldsDataUnfiltered(responseId, entries) ==
  [i \in 1..Len(entries) |-> ValueRow(responseId, entries[i])]

\* responseFieldsData of the submit route: the entries that are not blank.
RECURSIVE responseFieldsData(_, _)
responseFieldsData(responseId, entries) ==
  IF entries = << >> THEN << >>
  ELSE (IF Trim(Head(entries).value) # Empty
        THEN << ValueRow(responseId, Head(entries)) >> ELSE << >>)
       \o responseFieldsData(responseId, Tail(entries))

\* responseFieldsData of the responses route: every entry.
allFieldsData(responseId, entries) ==
  [i \in 1..Len(entries) |-> ValueRow(responseId, entries[i])]

\* missingFields of the responses route: the required fields without any
\* non-blank entry.
RECURSIVE missingFields(_, _)
missingFields(fields, entries) ==
  IF fields = << >> THEN << >>
  ELSE LET field == Head(fields)
           some  == \E i \in 1..Len(entries) :
                       /\ entries[i].fieldId = field.id
                       /\ Trim(entries[i].value) # Empty
       IN  (IF field.required /\ ~some THEN << RequiredError(field.label) >> ELSE << >>)
           \o missingFields(Tail(fields), entries)

NotAccepting == "Form is not accepting submissions at this time"
LimitError == "This form has reached its submission limit"
ValidationFailed == "Validation failed"
AlreadySubmitted == "You have already submitted this form"

(***************************************************************************)
(* Request handlers.  A handler is an async function: it runs to its next   *)
(* awaited call in one step and other handlers run while it waits.          *)
(* handler[h] is the state of one invocation: the awaited call it waits for *)
(* (pc; "idle" when it serves no request, "done" when it has replied), the   *)
(* request it serves, what the first query returned (settings and fields;   *)
(* fields also holds remainingFields of the field DELETE), the id of the    *)
(* row it created (0 before that) and its reply.  The record of a finished  *)
(* invocation stays until the reply is out (Return).                        *)
(***************************************************************************)
Handlers == 1..NumHandlers

\* form.settings as any || {} without the two keys the handlers read.
NoSettings == [maxSubmissions |-> 0, preventDuplicates |-> FALSE]

IdleHandler ==
  [pc |-> "idle", req |-> NoRequest, settings |-> NoSettings,
   fields |-> << >>, responseId |-> 0, res |-> NoReply]

\* The handler waits for `call` of the handler of `route`.
At(h, route, call) == handler[h].pc = call /\ handler[h].req.route = route

Respond(h, reply) ==
  handler' = [handler EXCEPT ![h].pc = "done", ![h].res = reply]

Await(h, call) == handler' = [handler EXCEPT ![h].pc = call]

\* The routes whose handler starts with await request.json().
ReadsBody(route) ==
  route \in {"submit", "responses", "fields.POST", "fields.PUT", "field.PUT",
             "response.PUT", "responses.bulk", "form.PUT", "forms.POST"}

\* request.json() resolves: the body of the request is JSON text.
ParsesAsJson(r) == "json" \notin DOMAIN r

\* The reply of the last catch block of a handler.
FailureMessage(route) ==
  CASE route = "submit"          -> "Failed to submit form. Please try again later."
    [] route = "responses"       -> "Failed to submit form response"
    [] route = "fields.POST"     -> "Failed to create form field"
    [] route = "fields.PUT"      -> "Failed to update form fields"
    [] route = "field.GET"       -> "Failed to fetch form field"
    [] route = "field.PUT"       -> "Failed to update form field"
    [] route = "field.DELETE"    -> "Failed to delete form field"
    [] route = "response.GET"    -> "Failed to fetch response"
    [] route = "response.PUT"    -> "Failed to update response"
    [] route = "response.DELETE" -> "Failed to delete response"
    [] route = "responses.bulk"  -> "Failed to perform bulk operation"
    [] route = "form.GET"        -> "Failed to fetch form"
    [] route = "form.PUT"        -> "Failed to update form"
    [] route = "form.DELETE"     -> "Failed to delete form"
    [] route = "forms.POST"      -> "Failed to create form"
    [] route = "responses.export" -> "Failed to export responses"
    [] route = "form.export"     -> "Failed to export form responses"

Failure(route) == Reply(500, FailureMessage(route), << >>)

(***************************************************************************)
(* POST /api/forms/[id]/submit, from the return of one awaited database     *)
(* call to the next call or the reply.                                      *)
(***************************************************************************)
\* The reply on validation errors, or else the next awaited call.
AfterValidation(h, hs, errors) ==
  IF Len(errors) > 0
  THEN handler' = [handler EXCEPT ![h] =
                     [hs EXCEPT !.pc = "done",
                                !.res = Reply(400, ValidationFailed, errors)]]
  ELSE IF hs.settings.preventDuplicates /\ Truthy(hs.req.respondentEmail)
  THEN handler' = [handler EXCEPT ![h] = [hs EXCEPT !.pc = "findFirst"]]
  ELSE handler' = [handler EXCEPT ![h] = [hs EXCEPT !.pc = "create"]]

\* From the end of the limit check to the next awaited call.
AfterLimitCheck(h, hs) ==
  AfterValidation(h, hs, validationErrors(hs.fields, hs.req.fields))

\* db.form.findUnique returns
FindUnique(h) ==
  /\ At(h, "submit", "findUnique")
  /\ UNCHANGED << form, formField, formResponse, responseField, req, res >>
  /\ IF handler[h].req.formId \notin DOMAIN form
     THEN Respond(h, Reply(404, "Form not found", << >>))
     ELSE IF NotPublished(form[handler[h].req.formId])
     THEN Respond(h, Reply(400, NotAccepting, << >>))
     ELSE IF form[handler[h].req.formId].settings.maxSubmissions > 0
     THEN handler' = [handler EXCEPT
             ![h].settings = form[handler[h].req.formId].settings,
             ![h].fields = FormFields(handler[h].req.formId),
             ![h].pc = "count"]
     ELSE AfterLimitCheck(h,
             [handler[h] EXCEPT
                !.settings = form[handler[h].req.formId].settings,
                !.fields = FormFields(handler[h].req.formId)])

\* db.formResponse.count returns
Count(h) ==
  /\ At(h, "submit", "count")
  /\ UNCHANGED << form, formField, formResponse, responseField, req, res >>
  /\ IF LimitReached(handler[h].settings,
                     ResponseCount(formResponse, handler[h].req.formId))
     THEN Respond(h, Reply(400, LimitError, << >>))
     ELSE AfterLimitCheck(h, handler[h])

\* db.formResponse.findFirst returns
FindFirst(h) ==
  /\ At(h, "submit", "findFirst")
  /\ UNCHANGED << form, formField, formResponse, responseField, req, res >>
  /\ IF ExistingResponse(formResponse, handler[h].req.formId,
                         handler[h].req.respondentEmail)
     THEN Respond(h, Reply(400, AlreadySubmitted, << >>))
     ELSE Await(h, "create")

\* db.formResponse.create returns
Create(h) ==
  /\ At(h, "submit", "create")
  /\ UNCHANGED << form, formField, responseField, req, res >>
  /\ formResponse' = Append(formResponse,
        NewResponse(NextResponseId(formResponse), handler[h].req.formId,
                    EmailOrNull(handler[h].req.respondentEmail)))
  /\ IF Len(responseFieldsData(0, handler[h].req.fields)) > 0
     THEN handler' = [handler EXCEPT
             ![h].pc = "createMany",
             ![h].responseId = NextResponseId(formResponse)]
     ELSE handler' = [handler EXCEPT
             ![h].pc = "done",
             ![h].responseId = NextResponseId(formResponse),
             ![h].res = Reply(201, "", << >>)]

\* db.responseField.createMany returns
CreateMany(h) ==
  /\ At(h, "submit", "createMany")
  /\ UNCHANGED << form, formField, formResponse, req, res >>
  /\ responseField' = responseField
        \o responseFieldsData(handler[h].responseId, handler[h].req.fields)
  /\ Respond(h, Reply(201, "", << >>))

(***************************************************************************)
(* POST /api/forms/[id]/responses                                           *)
(***************************************************************************)
\* db.form.findUnique returns
ResponsesFindUnique(h) ==
  /\ At(h, "responses", "findUnique")
  /\ UNCHANGED << form, formField, formResponse, responseField, req, res >>
  /\ IF handler[h].req.formId \notin DOMAIN form
     THEN Respond(h, Reply(404, "Form not found", << >>))
     ELSE IF NotPublished(form[handler[h].req.formId])
     THEN Respond(h, Reply(400, "Form is not published", << >>))
     ELSE IF Len(missingFields(FormFields(handler[h].req.formId),
                               handler[h].req.fields)) > 0
     THEN Respond(h, Reply(400, "Required fields are missing",
                           missingFields(FormFields(handler[h].req.formId),
                                         handler[h].req.fields)))
     ELSE Await(h, "create")

\* db.formResponse.create returns; an absent respondentEmail is stored as NULL.
ResponsesCreate(h) ==
  /\ At(h, "responses", "create")
  /\ UNCHANGED << form, formField, responseField, req, res >>
  /\ formResponse' = Append(formResponse,
        NewResponse(NextResponseId(formResponse), handler[h].req.formId,
                    IF handler[h].req.respondentEmail = Undefined THEN Null
                    ELSE handler[h].req.respondentEmail))
  /\ handler' = [handler EXCEPT ![h].pc = "createMany",
                                ![h].responseId = NextResponseId(formResponse)]

\* db.responseField.createMany returns
ResponsesCreateMany(h) ==
  /\ At(h, "responses", "createMany")
  /\ UNCHANGED << form, formField, formResponse, req, res >>
  /\ responseField' = responseField
        \o allFieldsData(handler[h].responseId, handler[h].req.fields)
  /\ Await(h, "findCreated")

\* db.formResponse.findUnique of the created row returns; the reply is 201
\* whether or not the row is still there.
ResponsesFindCreated(h) ==
  /\ At(h, "responses", "findCreated")
  /\ UNCHANGED << form, formField, formResponse, responseField, req, res >>
  /\ Respond(h, Reply(201, "", << >>))

(***************************************************************************)
(* The field routes: POST and PUT /api/forms/[id]/fields, and GET, PUT and  *)
(* DELETE /api/forms/[id]/fields/[fieldId].  A request body is a record     *)
(* that has exactly the keys the client sent.                               *)
(***************************************************************************)
\* fieldTypesWithOptions
fieldTypesWithOptions == {"DROPDOWN", "RADIO", "CHECKBOX"}

OptionsRequired == "Options are required for this field type"
FieldNotFound == "Field not found"
FormNotFound == "Form not found"

\* A parsed object keeps the keys of the schema only.
Strip(body, keys) == [k \in (DOMAIN body) \cap keys |-> body[k]]

\* createFieldSchema.parse(body) does not throw; no label of a request is
\* longer than 200 characters.
createFieldSchemaOk(body) ==
  /\ {"type", "label", "order"} \subseteq DOMAIN body
  /\ body.type \in FieldTypes
  /\ body.label # ""
  /\ body.order >= 0

\* updateFieldSchema.parse(body) does not throw.
updateFieldSchemaOk(body) ==
  /\ "label" \in DOMAIN body => body.label # ""
  /\ "order" \in DOMAIN body => body.order >= 0

\* updateFieldSchema.parse(body)
updateFieldData(body) == Strip(body, {"label", "required", "options", "order"})

\* The ids the database gives to created fields, in the order it uses them.
FieldIdPool == << "n1", "n2", "n3", "n4" >>

Created(rows) == {i \in 1..Len(rows) : \E k \in 1..Len(FieldIdPool) : rows[i].id = FieldIdPool[k]}

\* The id of the row db.formField.create is about to write: one no row has.
NewFieldId(rows) ==
  LET free == {k \in 1..Len(FieldIdPool) :
                 \A i \in 1..Len(rows) : rows[i].id # FieldIdPool[k]}
  IN  FieldIdPool[CHOOSE k \in free : \A j \in free : k <= j]

\* The row of db.formField.create({ data: { ...validatedData, formId } }):
\* required defaults to false and a field without options has none.
NewField(id, formId, body) ==
  Field(id, formId, body.type, body.label,
        IF "required" \in DOMAIN body THEN body.required ELSE FALSE,
        IF "options" \in DOMAIN body THEN body.options ELSE << >>,
        body.order)

\* The options check of POST: a choice type without options, or with none.
CreateLacksOptions(body) ==
  /\ body.type \in fieldTypesWithOptions
  /\ ("options" \notin DOMAIN body \/ Len(body.options) = 0)

\* An options check of PUT that looks at dropdowns only.
UpdateEmptiesOptionsOfDropdown(existingField, data) ==
  /\ "options" \in DOMAIN data
  /\ existingField.type = "DROPDOWN"
  /\ Len(data.options) = 0

\* The options check of PUT: the options of a choice field are set to [].
UpdateEmptiesOptions(existingField, data) ==
  /\ "options" \in DOMAIN data
  /\ existingField.type \in fieldTypesWithOptions
  /\ Len(data.options) = 0

\* db.formField.findUnique({ where: { id, formId } }): the position of the
\* row in the table, 0 when there is none.
FindField(rows, formId, fieldId) ==
  LET hits == {i \in 1..Len(rows) : rows[i].id = fieldId /\ rows[i].formId = formId}
  IN  IF hits = {} THEN 0 ELSE CHOOSE i \in hits : TRUE

HasField(rows, fieldId) == \E i \in 1..Len(rows) : rows[i].id = fieldId

\* db.formField.update({ where: { id }, data }) on a table that has the row.
UpdateField(rows, fieldId, data) ==
  [i \in 1..Len(rows) |->
     IF rows[i].id = fieldId
     THEN [k \in DOMAIN rows[i] |-> IF k \in DOMAIN data THEN data[k] ELSE rows[i][k]]
     ELSE rows[i]]

\* The updates of a batch run one after the other: the table they leave and
\* whether all of them found their row (an update of no row throws).
RECURSIVE ApplyUpdates(_, _)
ApplyUpdates(rows, updates) ==
  IF updates = << >> THEN [ok |-> TRUE, rows |-> rows]
  ELSE IF ~HasField(rows, Head(updates).id) THEN [ok |-> FALSE, rows |-> rows]
  ELSE ApplyUpdates(UpdateField(rows, Head(updates).id,
                                [order |-> Head(updates).order]),
                    Tail(updates))

\* A batch whose writes stay when a later update of the batch fails.
TransactionPartial(rows, outcome) == outcome.rows

\* db.$transaction(updatePromises): the table after the batch, which is the
\* table before it unless every update was done.
Transaction(rows, outcome) == IF outcome.ok THEN outcome.rows ELSE rows

\* db.formField.findMany({ where: { formId }, orderBy: { order: 'asc' } })
FindManyFields(rows, formId) ==
  LET OfForm(f) == f.formId = formId
  IN  OrderByOrder(SelectSeq(rows, OfForm))

\* A renumbering that counts from one.
IndexUpdatesFromOne(remainingFields) ==
  [i \in 1..Len(remainingFields) |-> [id |-> remainingFields[i].id, order |-> i]]

\* remainingFields.map((field, index) => update({ id, order: index }))
IndexUpdates(remainingFields) ==
  [i \in 1..Len(remainingFields) |-> [id |-> remainingFields[i].id, order |-> i - 1]]

\* db.formField.delete({ where: { id } })
DeleteField(rows, fieldId) ==
  LET Other(f) == f.id # fieldId
  IN  SelectSeq(rows, Other)

FieldRequest(route, formId, fieldId, body) ==
  [route |-> route, formId |-> formId, fieldId |-> fieldId, body |-> body]

\* POST /api/forms/[id]/fields: db.form.findUnique returns
FieldsPostFindUnique(h) ==
  /\ At(h, "fields.POST", "findUnique")
  /\ UNCHANGED << form, formField, formResponse, responseField, req, res >>
  /\ IF handler[h].req.formId \notin DOMAIN form
     THEN Respond(h, Reply(404, FormNotFound, << >>))
     ELSE IF CreateLacksOptions(handler[h].req.body)
     THEN Respond(h, Reply(400, OptionsRequired, << >>))
     ELSE Await(h, "create")

\* POST /api/forms/[id]/fields: db.formField.create returns
FieldsPostCreate(h) ==
  /\ At(h, "fields.POST", "create")
  /\ UNCHANGED << form, formResponse, responseField, req, res >>
  /\ formField' = Append(formField,
        NewField(NewFieldId(formField), handler[h].req.formId, handler[h].req.body))
  /\ Respond(h, Reply(201, "", << >>))

\* PUT /api/forms/[id]/fields, the bulk order update: db.form.findUnique returns
FieldsPutFindUnique(h) ==
  /\ At(h, "fields.PUT", "findUnique")
  /\ UNCHANGED << form, formField, formResponse, responseField, req, res >>
  /\ IF handler[h].req.formId \notin DOMAIN form
     THEN Respond(h, Reply(404, FormNotFound, << >>))
     ELSE Await(h, "transaction")

\* PUT /api/forms/[id]/fields: db.$transaction returns or throws
FieldsPutTransaction(h) ==
  /\ At(h, "fields.PUT", "transaction")
  /\ UNCHANGED << form, formResponse, responseField, req, res >>
  /\ formField' = Transaction(formField,
                              ApplyUpdates(formField, handler[h].req.body.fields))
  /\ IF ApplyUpdates(formField, handler[h].req.body.fields).ok
     THEN Await(h, "findMany")
     ELSE Respond(h, Failure("fields.PUT"))

\* PUT /api/forms/[id]/fields: the process stops when `done` updates of the
\* batch have run: the batch is not committed and the client gets no reply.
FieldsPUTStopped(h, done) ==
  /\ At(h, "fields.PUT", "transaction")
  /\ done < Len(handler[h].req.body.fields)
  /\ ApplyUpdates(formField, SubSeq(handler[h].req.body.fields, 1, done)).ok
  /\ formField' = Transaction(formField,
        [ok |-> FALSE,
         rows |-> ApplyUpdates(formField,
                               SubSeq(handler[h].req.body.fields, 1, done)).rows])
  /\ Respond(h, NoReply)
  /\ UNCHANGED << form, formResponse, responseField, req, res >>

\* PUT /api/forms/[id]/fields: db.formField.findMany returns
FieldsPutFindMany(h) ==
  /\ At(h, "fields.PUT", "findMany")
  /\ UNCHANGED << form, formField, formResponse, responseField, req, res >>
  /\ Respond(h, Reply(200, "", << >>))

\* GET /api/forms/[id]/fields/[fieldId]: db.formField.findUnique returns
FieldGetFindUnique(h) ==
  /\ At(h, "field.GET", "findUnique")
  /\ UNCHANGED << form, formField, formResponse, responseField, req, res >>
  /\ IF FindField(formField, handler[h].req.formId, handler[h].req.fieldId) = 0
     THEN Respond(h, Reply(404, FieldNotFound, << >>))
     ELSE Respond(h, Reply(200, "",
             << formField[FindField(formField, handler[h].req.formId,
                                    handler[h].req.fieldId)] >>))

\* PUT /api/forms/[id]/fields/[fieldId]: db.formField.findUnique returns
FieldPutFindUnique(h) ==
  /\ At(h, "field.PUT", "findUnique")
  /\ UNCHANGED << form, formField, formResponse, responseField, req, res >>
  /\ IF FindField(formField, handler[h].req.formId, handler[h].req.fieldId) = 0
     THEN Respond(h, Reply(404, FieldNotFound, << >>))
     ELSE IF UpdateEmptiesOptions(
                formField[FindField(formField, handler[h].req.formId,
                                    handler[h].req.fieldId)],
                updateFieldData(handler[h].req.body))
     THEN Respond(h, Reply(400, OptionsRequired, << >>))
     ELSE Await(h, "update")

\* PUT /api/forms/[id]/fields/[fieldId]: db.formField.update returns, or
\* throws when the row is gone.
FieldPutUpdate(h) ==
  /\ At(h, "field.PUT", "update")
  /\ UNCHANGED << form, formResponse, responseField, req, res >>
  /\ IF HasField(formField, handler[h].req.fieldId)
     THEN /\ formField' = UpdateField(formField, handler[h].req.fieldId,
                                      updateFieldData(handler[h].req.body))
          /\ Respond(h, Reply(200, "", << >>))
     ELSE /\ UNCHANGED formField
          /\ Respond(h, Failure("field.PUT"))

\* DELETE /api/forms/[id]/fields/[fieldId]: db.formField.findUnique returns
FieldDeleteFindUnique(h) ==
  /\ At(h, "field.DELETE", "findUnique")
  /\ UNCHANGED << form, formField, formResponse, responseField, req, res >>
  /\ IF FindField(formField, handler[h].req.formId, handler[h].req.fieldId) = 0
     THEN Respond(h, Reply(404, FieldNotFound, << >>))
     ELSE Await(h, "delete")

\* The cascade of a field delete to the values stored for the fields.
DeleteValuesOfFields(values, fieldIds) ==
  LET Kept(v) == v.fieldId \notin fieldIds
  IN  SelectSeq(values, Kept)

\* DELETE /api/forms/[id]/fields/[fieldId]: db.formField.delete returns, or
\* throws when the row is gone.  The values stored for the field go with it
\* when the schema of the database cascades to them (cascade), as the handler
\* expects, and stay otherwise.
FieldDeleteDelete(h, cascade) ==
  /\ At(h, "field.DELETE", "delete")
  /\ UNCHANGED << form, formResponse, req, res >>
  /\ IF HasField(formField, handler[h].req.fieldId)
     THEN /\ formField' = DeleteField(formField, handler[h].req.fieldId)
          /\ responseField' =
               IF cascade
               THEN DeleteValuesOfFields(responseField, {handler[h].req.fieldId})
               ELSE responseField
          /\ Await(h, "findMany")
     ELSE /\ UNCHANGED << formField, responseField >>
          /\ Respond(h, Failure("field.DELETE"))

\* DELETE /api/forms/[id]/fields/[fieldId]: db.formField.findMany returns
\* remainingFields
FieldDeleteFindMany(h) ==
  /\ At(h, "field.DELETE", "findMany")
  /\ UNCHANGED << form, formField, formResponse, responseField, req, res >>
  /\ handler' = [handler EXCEPT
        ![h].pc = "transaction",
        ![h].fields = FindManyFields(formField, handler[h].req.formId)]

\* DELETE /api/forms/[id]/fields/[fieldId]: db.$transaction of the
\* renumbering returns or throws
FieldDeleteTransaction(h) ==
  /\ At(h, "field.DELETE", "transaction")
  /\ UNCHANGED << form, formResponse, responseField, req, res >>
  /\ formField' = Transaction(formField,
        ApplyUpdates(formField, IndexUpdates(handler[h].fields)))
  /\ IF ApplyUpdates(formField, IndexUpdates(handler[h].fields)).ok
     THEN Respond(h, Reply(200, "", << >>))
     ELSE Respond(h, Failure("field.DELETE"))

(***************************************************************************)
(* The dashboard routes of stored responses: GET, PUT and DELETE            *)
(* /api/responses/[id] and the bulk operations of POST /api/responses.      *)
(***************************************************************************)
ResponseStatuses == {"NEW", "READ", "FLAGGED", "ARCHIVED"}
ResponseNotFound == "Response not found"

\* updateResponseSchema.parse(body) does not throw.
updateResponseSchemaOk(body) ==
  "status" \in DOMAIN body /\ body.status \in ResponseStatuses

\* db.formResponse.findUnique({ where: { id } }) finds a row.
HasResponse(rows, id) == \E i \in 1..Len(rows) : rows[i].id = id

\* include: { fields: { include: { field }, orderBy: { field: { order:
\* 'asc' } } } }: the values stored for a response by ascending order of their
\* fields, ties in table order; a value whose field is gone has no order and
\* comes last.
IncludedValues(values, id) ==
  LET Mine(v)    == v.responseId = id
      Known(v)   == Mine(v) /\ HasField(formField, v.fieldId)
      Unknown(v) == Mine(v) /\ ~HasField(formField, v.fieldId)
      OrderOf(v) == formField[CHOOSE i \in 1..Len(formField) :
                                 formField[i].id = v.fieldId].order
      Keyed(known) == [i \in 1..Len(known) |->
                         [value |-> known[i], order |-> OrderOf(known[i])]]
      Values(sorted) == [i \in 1..Len(sorted) |-> sorted[i].value]
  IN  Values(OrderByOrder(Keyed(SelectSeq(values, Known))))
        \o SelectSeq(values, Unknown)

\* db.formResponse.update({ where: { id }, data })
UpdateResponse(rows, id, data) ==
  [i \in 1..Len(rows) |->
     IF rows[i].id = id
     THEN [k \in DOMAIN rows[i] |-> IF k \in DOMAIN data THEN data[k] ELSE rows[i][k]]
     ELSE rows[i]]

\* An updateMany that forgets its where clause.
UpdateManyStatusEverywhere(rows, ids, status) ==
  [i \in 1..Len(rows) |-> [rows[i] EXCEPT !.status = status]]

\* db.formResponse.updateMany({ where: { id: { in: ids } }, data: { status } })
UpdateManyStatus(rows, ids, status) ==
  [i \in 1..Len(rows) |->
     IF \E k \in 1..Len(ids) : ids[k] = rows[i].id
     THEN [rows[i] EXCEPT !.status = status]
     ELSE rows[i]]

\* db.formResponse.delete / deleteMany, and the cascade to the values.
DeleteResponses(rows, ids) ==
  LET Kept(row) == \A k \in 1..Len(ids) : ids[k] # row.id
  IN  SelectSeq(rows, Kept)

DeleteValuesOfResponses(values, ids) ==
  LET Kept(v) == \A k \in 1..Len(ids) : ids[k] # v.responseId
  IN  SelectSeq(values, Kept)

\* The status a bulk action writes.
BulkStatus(action) ==
  CASE action = "markAsRead" -> "READ"
    [] action = "markAsFlagged" -> "FLAGGED"
    [] action = "archive" -> "ARCHIVED"

\* !action || !Array.isArray(responseIds) || responseIds.length === 0
BulkBodyLacking(body) ==
  \/ "action" \notin DOMAIN body
  \/ body.action = ""
  \/ "responseIds" \notin DOMAIN body
  \/ Len(body.responseIds) = 0

ResponseRequest(route, responseId, body) ==
  [route |-> route, responseId |-> responseId, body |-> body]

\* GET /api/responses/[id]: db.formResponse.findUnique returns
ResponseGetFindUnique(h) ==
  /\ At(h, "response.GET", "findUnique")
  /\ UNCHANGED << form, formField, formResponse, responseField, req, res >>
  /\ IF HasResponse(formResponse, handler[h].req.responseId)
     THEN Respond(h, Reply(200, "",
             IncludedValues(responseField, handler[h].req.responseId)))
     ELSE Respond(h, Reply(404, ResponseNotFound, << >>))

\* PUT /api/responses/[id]: db.formResponse.findUnique returns
ResponsePutFindUnique(h) ==
  /\ At(h, "response.PUT", "findUnique")
  /\ UNCHANGED << form, formField, formResponse, responseField, req, res >>
  /\ IF HasResponse(formResponse, handler[h].req.responseId)
     THEN Await(h, "update")
     ELSE Respond(h, Reply(404, ResponseNotFound, << >>))

\* PUT /api/responses/[id]: db.formResponse.update returns, or throws when
\* the row is gone.
ResponsePutUpdate(h) ==
  /\ At(h, "response.PUT", "update")
  /\ UNCHANGED << form, formField, responseField, req, res >>
  /\ IF HasResponse(formResponse, handler[h].req.responseId)
     THEN /\ formResponse' = UpdateResponse(formResponse, handler[h].req.responseId,
                                            Strip(handler[h].req.body, {"status"}))
          /\ Respond(h, Reply(200, "", << >>))
     ELSE /\ UNCHANGED formResponse
          /\ Respond(h, Failure("response.PUT"))

\* DELETE /api/responses/[id]: db.formResponse.findUnique returns
ResponseDeleteFindUnique(h) ==
  /\ At(h, "response.DELETE", "findUnique")
  /\ UNCHANGED << form, formField, formResponse, responseField, req, res >>
  /\ IF HasResponse(formResponse, handler[h].req.responseId)
     THEN Await(h, "delete")
     ELSE Respond(h, Reply(404, ResponseNotFound, << >>))

\* DELETE /api/responses/[id]: db.formResponse.delete returns, or throws
\* when the row is gone.
ResponseDeleteDelete(h) ==
  /\ At(h, "response.DELETE", "delete")
  /\ UNCHANGED << form, formField, req, res >>
  /\ IF HasResponse(formResponse, handler[h].req.responseId)
     THEN /\ formResponse' = DeleteResponses(formResponse,
                                             << handler[h].req.responseId >>)
          /\ responseField' = DeleteValuesOfResponses(responseField,
                                             << handler[h].req.responseId >>)
          /\ Respond(h, Reply(200, "", << >>))
     ELSE /\ UNCHANGED << formResponse, responseField >>
          /\ Respond(h, Failure("response.DELETE"))

\* POST /api/responses, bulk operations: db.formResponse.updateMany returns
BulkUpdateMany(h) ==
  /\ At(h, "responses.bulk", "updateMany")
  /\ UNCHANGED << form, formField, responseField, req, res >>
  /\ formResponse' = UpdateManyStatus(formResponse, handler[h].req.body.responseIds,
                                      BulkStatus(handler[h].req.body.action))
  /\ Respond(h, Reply(200, "", << >>))

\* POST /api/responses, bulk operations: db.formResponse.deleteMany returns
BulkDeleteMany(h) ==
  /\ At(h, "responses.bulk", "deleteMany")
  /\ UNCHANGED << form, formField, req, res >>
  /\ formResponse' = DeleteResponses(formResponse, handler[h].req.body.responseIds)
  /\ responseField' = DeleteValuesOfResponses(responseField,
                                              handler[h].req.body.responseIds)
  /\ Respond(h, Reply(200, "", << >>))

(***************************************************************************)
(* The form routes: POST /api/forms, and GET, PUT and DELETE                *)
(* /api/forms/[id].  A row of form holds the status and the settings; the   *)
(* title, the description, the slug and the tags of a form are read by no   *)
(* modelled handler.                                                        *)
(***************************************************************************)
FormStatuses == {"DRAFT", "PUBLISHED", "ARCHIVED"}

\* updateFormSchema.parse(body) does not throw.
updateFormSchemaOk(body) ==
  /\ "title" \in DOMAIN body => body.title # ""
  /\ "status" \in DOMAIN body => body.status \in FormStatuses

\* createFormSchema.parse(body) does not throw.
createFormSchemaOk(body) == "title" \in DOMAIN body /\ body.title # ""

\* The parsed body: settings: z.object({}) keeps no key of the settings sent.
FormData(body) ==
  [k \in (DOMAIN body) \cap {"status", "settings"} |->
     IF k = "settings" THEN NoSettings ELSE body[k]]

\* db.form.update({ where: { id }, data: updateData })
UpdateForm(forms, id, data) ==
  [forms EXCEPT ![id] =
     [k \in DOMAIN forms[id] |-> IF k \in DOMAIN data THEN data[k] ELSE forms[id][k]]]

\* The ids the database gives to created forms, in the order it uses them.
FormIdPool == << "F6", "F7", "F8" >>

CreatedForms(forms) == {k \in 1..Len(FormIdPool) : FormIdPool[k] \in DOMAIN forms}

\* The id of the row db.form.create is about to write: one no row has.
NewFormId(forms) ==
  FormIdPool[CHOOSE k \in 1..Len(FormIdPool) :
                /\ FormIdPool[k] \notin DOMAIN forms
                /\ \A j \in 1..(k - 1) : FormIdPool[j] \in DOMAIN forms]

\* db.form.delete({ where: { id } })
DeleteForm(forms, id) == [f \in (DOMAIN forms) \ {id} |-> forms[f]]

\* The cascade of a form delete to the fields of the form.
DeleteFieldsOfForm(rows, id) ==
  LET Other(f) == f.formId # id
  IN  SelectSeq(rows, Other)

\* The ids of the fields a form delete cascades to.
FieldIdsOfForm(rows, id) == {rows[i].id : i \in {j \in 1..Len(rows) : rows[j].formId = id}}

\* The cascade of a form delete to the responses of the form.
ResponseIdsOfForm(rows, id) ==
  LET OfForm(row) == row.formId = id
  IN  [i \in 1..Len(SelectSeq(rows, OfForm)) |-> SelectSeq(rows, OfForm)[i].id]

FormRequest(route, formId, body) == [route |-> route, formId |-> formId, body |-> body]

\* GET /api/forms/[id]: db.form.findUnique returns
FormGetFindUnique(h) ==
  /\ At(h, "form.GET", "findUnique")
  /\ UNCHANGED << form, formField, formResponse, responseField, req, res >>
  /\ IF handler[h].req.formId \in DOMAIN form
     THEN Respond(h, Reply(200, "", << form[handler[h].req.formId] >>))
     ELSE Respond(h, Reply(404, FormNotFound, << >>))

\* PUT /api/forms/[id]: db.form.findUnique returns
FormPutFindUnique(h) ==
  /\ At(h, "form.PUT", "findUnique")
  /\ UNCHANGED << form, formField, formResponse, responseField, req, res >>
  /\ IF handler[h].req.formId \in DOMAIN form
     THEN Await(h, "update")
     ELSE Respond(h, Reply(404, FormNotFound, << >>))

\* PUT /api/forms/[id]: db.form.update returns, or throws when the row is gone.
FormPutUpdate(h) ==
  /\ At(h, "form.PUT", "update")
  /\ UNCHANGED << formField, formResponse, responseField, req, res >>
  /\ IF handler[h].req.formId \in DOMAIN form
     THEN /\ form' = UpdateForm(form, handler[h].req.formId,
                                FormData(handler[h].req.body))
          /\ Respond(h, Reply(200, "", << >>))
     ELSE /\ UNCHANGED form
          /\ Respond(h, Failure("form.PUT"))

\* DELETE /api/forms/[id]: db.form.findUnique returns
FormDeleteFindUnique(h) ==
  /\ At(h, "form.DELETE", "findUnique")
  /\ UNCHANGED << form, formField, formResponse, responseField, req, res >>
  /\ IF handler[h].req.formId \in DOMAIN form
     THEN Await(h, "delete")
     ELSE Respond(h, Reply(404, FormNotFound, << >>))

\* DELETE /api/forms/[id]: db.form.delete returns, or throws when the row is
\* gone.  The fields of the form go with it; its responses, their values and
\* the values stored for its fields go with it when the schema of the
\* database cascades to them (cascade).
FormDeleteDelete(h, cascade) ==
  /\ At(h, "form.DELETE", "delete")
  /\ UNCHANGED << req, res >>
  /\ IF handler[h].req.formId \in DOMAIN form
     THEN /\ form' = DeleteForm(form, handler[h].req.formId)
          /\ formField' = DeleteFieldsOfForm(formField, handler[h].req.formId)
          /\ formResponse' =
               IF cascade
               THEN DeleteResponses(formResponse,
                       ResponseIdsOfForm(formResponse, handler[h].req.formId))
               ELSE formResponse
          /\ responseField' =
               IF cascade
               THEN DeleteValuesOfFields(
                       DeleteValuesOfResponses(responseField,
                          ResponseIdsOfForm(formResponse, handler[h].req.formId)),
                       FieldIdsOfForm(formField, handler[h].req.formId))
               ELSE responseField
          /\ Respond(h, Reply(200, "", << >>))
     ELSE /\ UNCHANGED << form, formField, formResponse, responseField >>
          /\ Respond(h, Failure("form.DELETE"))

\* POST /api/forms: db.form.create returns.  The status of the new row is the
\* default of the column, which the schema of the database sets.
FormsPostCreate(h, status) ==
  /\ At(h, "forms.POST", "create")
  /\ UNCHANGED << formField, formResponse, responseField, req, res >>
  /\ form' = [f \in (DOMAIN form) \cup {NewFormId(form)} |->
                IF f \in DOMAIN form THEN form[f]
                ELSE [status |-> status, settings |-> NoSettings]]
  /\ Respond(h, Reply(201, "", << >>))

Quote == "\""

(***************************************************************************)
(* The export routes GET /api/responses/export and GET                      *)
(* /api/forms/[id]/responses/export.  The handlers parse an object built    *)
(* from searchParams.get(name), which is the text of a parameter the URL    *)
(* has and null for one it does not have.  z.boolean() accepts neither, so  *)
(* the parse of includeMetadata throws for every URL and the handlers reply *)
(* 400 before their first database call: what follows the parse in the      *)
(* handlers (the queries, generateCsv, generateFormCsv, escapeCsvValue) is  *)
(* never run and is no part of the model.                                   *)
(***************************************************************************)
\* searchParams.get(name) of a URL with the parameters params.
Get(params, name) ==
  IF name \in DOMAIN params
  THEN [kind |-> "string", text |-> params[name]]
  ELSE [kind |-> "null"]

\* z.string(), z.enum(values) and z.boolean() accept a value; .optional() and
\* .default() let undefined pass besides, which searchParams.get never gives.
ZodString(v) == v.kind = "string"
ZodEnum(v, values) == v.kind = "string" /\ v.text \in values
ZodBoolean(v) == v.kind = "boolean"

DateRanges == {"7d", "30d", "90d", "1y", "all"}

\* exportQuerySchema.parse({ format: searchParams.get('format'), ... }) does
\* not throw.
exportQuerySchemaOk(params) ==
  /\ ZodEnum(Get(params, "format"), {"csv", "excel"})
  /\ ZodString(Get(params, "formId"))
  /\ ZodEnum(Get(params, "status"), ResponseStatuses)
  /\ ZodEnum(Get(params, "dateRange"), DateRanges)
  /\ ZodString(Get(params, "search"))
  /\ ZodBoolean(Get(params, "includeMetadata"))
  /\ ZodString(Get(params, "fieldDelimiter"))

\* formExportQuerySchema.parse({ ... }) does not throw.
formExportQuerySchemaOk(params) ==
  /\ ZodEnum(Get(params, "format"), {"csv", "excel"})
  /\ ZodEnum(Get(params, "status"), ResponseStatuses)
  /\ ZodEnum(Get(params, "dateRange"), DateRanges)
  /\ ZodString(Get(params, "search"))
  /\ ZodBoolean(Get(params, "includeMetadata"))
  /\ ZodString(Get(params, "fieldDelimiter"))
  /\ ZodBoolean(Get(params, "includeFieldTypes"))

ExportQuery(route, formId, params) ==
  [route |-> route, formId |-> formId, params |-> params]

(***************************************************************************)
(* The start of a handler: from the arrival of the request to the first     *)
(* awaited database call, or to the reply when the body is turned away.     *)
(***************************************************************************)
\* The reply of the handler before its first database call, NoReply when it
\* gets to that call: request.json() rejects (500), the schema throws a
\* ZodError (400), or the handler's own check of the body fails (400).
BodyReply(r) ==
  IF ReadsBody(r.route) /\ ~ParsesAsJson(r) THEN Failure(r.route)
  ELSE CASE r.route = "submit" ->
              IF SubmitSchemaOk(r) THEN NoReply
              ELSE Reply(400, "Invalid request data", << >>)
         [] r.route = "responses" ->
              IF ResponsesSchemaOk(r) THEN NoReply
              ELSE Reply(400, ValidationFailed, << >>)
         [] r.route = "fields.POST" ->
              IF createFieldSchemaOk(r.body) THEN NoReply
              ELSE Reply(400, ValidationFailed, << >>)
         [] r.route = "fields.PUT" ->
              IF "fields" \in DOMAIN r.body THEN NoReply
              ELSE Reply(400, "Fields must be an array", << >>)
         [] r.route = "field.PUT" ->
              IF updateFieldSchemaOk(r.body) THEN NoReply
              ELSE Reply(400, ValidationFailed, << >>)
         [] r.route = "response.PUT" ->
              IF updateResponseSchemaOk(r.body) THEN NoReply
              ELSE Reply(400, ValidationFailed, << >>)
         [] r.route = "responses.bulk" ->
              IF BulkBodyLacking(r.body)
              THEN Reply(400, "Action and responseIds are required", << >>)
              ELSE IF r.body.action \in {"markAsRead", "markAsFlagged",
                                        "archive", "delete"}
              THEN NoReply
              ELSE Reply(400, "Invalid action", << >>)
         [] r.route = "form.PUT" ->
              IF updateFormSchemaOk(r.body) THEN NoReply
              ELSE Reply(400, ValidationFailed, << >>)
         [] r.route = "forms.POST" ->
              IF createFormSchemaOk(r.body) THEN NoReply
              ELSE Reply(400, ValidationFailed, << >>)
         [] r.route = "responses.export" ->
              IF exportQuerySchemaOk(r.params) THEN NoReply
              ELSE Reply(400, "Invalid export parameters", << >>)
         [] r.route = "form.export" ->
              IF formExportQuerySchemaOk(r.params) THEN NoReply
              ELSE Reply(400, "Invalid export parameters", << >>)
         [] OTHER -> NoReply

\* The first database call a handler awaits.
FirstCall(r) ==
  CASE r.route = "forms.POST" -> "create"
    [] r.route = "responses.export" -> "findMany"
    [] r.route = "responses.bulk" ->
         IF r.body.action = "delete" THEN "deleteMany" ELSE "updateMany"
    [] OTHER -> "findUnique"

\* The bounds of the model on the rows a handler may go on to create.
WithinBounds(r) ==
  /\ r.route \in {"submit", "responses"} => Len(formResponse) < MaxResponses
  /\ r.route = "fields.POST" => Cardinality(Created(formField)) < MaxCreated
  /\ r.route = "forms.POST" => Cardinality(CreatedForms(form)) < MaxCreatedForms

\* Handler h takes request r and runs to its first awaited database call.
Begin(h, r) ==
  /\ handler[h].pc = "idle"
  /\ WithinBounds(r)
  /\ UNCHANGED << form, formField, formResponse, responseField, req, res >>
  /\ handler' = [handler EXCEPT ![h] =
        IF BodyReply(r) = NoReply
        THEN [IdleHandler EXCEPT !.req = r, !.pc = FirstCall(r)]
        ELSE [IdleHandler EXCEPT !.req = r, !.res = BodyReply(r), !.pc = "done"]]

\* The awaited database call throws and the last catch block replies 500;
\* a write that throws has written nothing.
StoreError(h) ==
  /\ handler[h].pc \notin {"idle", "done"}
  /\ UNCHANGED << form, formField, formResponse, responseField, req, res >>
  /\ Respond(h, Failure(handler[h].req.route))

\* The reply is out and the invocation is over.
Return(h) ==
  /\ handler[h].pc = "done"
  /\ handler' = [handler EXCEPT ![h] = IdleHandler]
  /\ UNCHANGED << form, formField, formResponse, responseField, req, res >>

(***************************************************************************)
(* Request bodies of the specifications.                                    *)
(***************************************************************************)
Entry(fieldId, value) == [fieldId |-> fieldId, value |-> value]

Request(route, formId, respondentEmail, fields) ==
  [route |-> route, formId |-> formId,
   respondentEmail |-> respondentEmail, fields |-> fields]

FormIds == {"F1", "F2", "F3", "F4", "F5", GhostForm}

\* Entries for the fields of F1 and for a field F1 does not have.
ValidationEntries ==
  {Entry("email", v) : v \in {Blank, GoodAddress, OptA}}
  \cup {Entry("plan", v) : v \in {<< "c" >>, << "a", ",", "b" >>}}
  \cup {Entry("tags", v) : v \in {<< "a", ",", "b" >>, << "a", ",", "c" >>}}
  \cup {Entry("size", << "b", "," >>), Entry("stars", << "7" >>), Entry("note", OptA)}

ValidationRequests ==
  {Request("submit", f, Undefined, p) :
     f \in FormIds,
     p \in UNION {[1..n -> ValidationEntries] : n \in 0..MaxEntries}}

\* GoodAddress passes the validator of EMAIL fields and fails the schema of
\* the body, whose top-level domain takes two letters or more.
Emails == {Undefined, Empty, LowerEmail, UpperEmail, GoodAddress}

Payloads ==
  {<< >>, << Entry("email", GoodAddress) >>, << Entry("name", OptA) >>,
   << Entry("name", Blank) >>,
   << Entry("name", OptA), Entry("email", Blank) >>}

Requests ==
  {Request(route, f, e, p) :
     route \in {"submit", "responses"}, f \in FormIds, e \in Emails, p \in Payloads}

ConcurrentRequests ==
  {Request("submit", "F1", LowerEmail, << Entry("email", GoodAddress) >>),
   Request("submit", "F2", Undefined, << Entry("name", OptA) >>)}

\* Requests of the field routes: form F1 and a form that does not exist;
\* fields of F1 and F2, the first created field and a field that does not exist.
GhostField == "ghost"

FieldFormIds == {"F1", GhostForm}

CreateBodies ==
  {[type |-> "SHORT_TEXT", label |-> "New", order |-> 1],
   [type |-> "URL", label |-> "New", order |-> 2],
   [type |-> "DROPDOWN", label |-> "New", order |-> 1],
   [type |-> "CHECKBOX", label |-> "New", order |-> 0, options |-> << >>],
   [type |-> "CHECKBOX", label |-> "New", order |-> 0, options |-> << OptA >>],
   [type |-> "RADIO", label |-> "", order |-> 0, options |-> << OptA >>]}

\* Updates of single fields: [form, field, body].
FieldUpdates ==
  {<< "F1", "plan", [options |-> << >>] >>,
   << "F1", "plan", [options |-> << OptB >>, type |-> "SHORT_TEXT"] >>,
   << "F1", "email", [options |-> << >>] >>,
   << "F1", "email", [label |-> ""] >>,
   << "F2", "plan", [order |-> 1] >>,
   << "F1", GhostField, [order |-> 1] >>,
   << "F1", FieldIdPool[1], [options |-> << >>, required |-> TRUE] >>}

FieldTargets ==
  {<< "F1", "plan" >>, << "F2", "plan" >>, << "F1", GhostField >>,
   << "F1", FieldIdPool[1] >>}

ReorderEntries ==
  {[id |-> "plan", order |-> 0], [id |-> "email", order |-> 5],
   [id |-> "name", order |-> 3], [id |-> GhostField, order |-> 0]}

ReorderBodies ==
  {[fields |-> b] : b \in UNION {[1..n -> ReorderEntries] : n \in 0..MaxBatch}}
  \cup {[order |-> 0]}

FieldRequests ==
  {FieldRequest("fields.POST", f, "", b) : f \in FieldFormIds, b \in CreateBodies}
  \cup {FieldRequest("fields.PUT", f, "", b) : f \in FieldFormIds, b \in ReorderBodies}
  \cup {FieldRequest("field.PUT", u[1], u[2], u[3]) : u \in FieldUpdates}
  \cup {FieldRequest(route, t[1], t[2], << >>) :
          route \in {"field.GET", "field.DELETE"}, t \in FieldTargets}

\* Requests of the dashboard: the first two responses and one that is not
\* stored (ids stay within 1..MaxResponses); the submissions that fill the
\* table are ConcurrentRequests.
GhostResponse == MaxResponses + 1

StatusBodies ==
  {[status |-> "READ"], [status |-> "SEEN"], [note |-> "READ"],
   [status |-> "FLAGGED", respondentEmail |-> UpperEmail, formId |-> "F3"]}

BulkBodies ==
  {[action |-> a, responseIds |-> ids] :
     a \in {"markAsRead", "archive", "delete", "purge"},
     ids \in {<< 1 >>, << 2, GhostResponse >>}}
  \cup {[action |-> "markAsFlagged", responseIds |-> << 1, 2 >>],
        [action |-> "archive", responseIds |-> << >>],
        [action |-> "", responseIds |-> << 1 >>],
        [responseIds |-> << 1 >>]}

DashboardRequests ==
  {ResponseRequest("response.PUT", id, b) : id \in {1, GhostResponse}, b \in StatusBodies}
  \cup {ResponseRequest(route, id, << >>) :
          route \in {"response.GET", "response.DELETE"}, id \in {2, GhostResponse}}
  \cup {ResponseRequest("responses.bulk", 0, b) : b \in BulkBodies}

\* Submissions whose values carry a comma, a semicolon, a quote or a line
\* break.
ExportSubmissions ==
  {Request("submit", "F2", Undefined, << Entry("name", v) >>) :
     v \in {OptA, << "a", ",", "b" >>, << "a", ";", "b" >>,
            << "a", Quote, "b" >>, << "a", "\n", "b" >>}}
  \cup {Request("submit", "F1", Undefined,
                << Entry("email", GoodAddress), Entry("tags", << "a", ",", "b" >>) >>)}

\* A request whose body is not JSON text: request.json() rejects.
NotJson(route, formId) == [route |-> route, formId |-> formId, json |-> FALSE]

UnparsableRequests == {NotJson(route, "F1") : route \in {"submit", "responses"}}

\* Requests of the form routes.  The PUT bodies change the status, send
\* settings, or fail the schema.
FormBodies ==
  {[status |-> "ARCHIVED"], [status |-> "PUBLISHED"],
   [settings |-> [maxSubmissions |-> LimitN, preventDuplicates |-> TRUE]],
   [status |-> "OPEN"], [title |-> ""]}

\* The changes of status that close an open form and open a closed one.
StatusChanges ==
  {FormRequest("form.PUT", "F1", [status |-> "ARCHIVED"]),
   FormRequest("form.PUT", "F3", [status |-> "PUBLISHED"])}

\* Settings sent to the form that carries the submission limit.
SettingsChanges ==
  {FormRequest("form.PUT", "F2",
               [settings |-> [maxSubmissions |-> LimitN, preventDuplicates |-> TRUE]])}

FormRequests ==
  {FormRequest("form.PUT", f, b) : f \in {"F1", "F2", "F3", GhostForm}, b \in FormBodies}
  \cup {FormRequest(route, f, << >>) :
          route \in {"form.GET", "form.DELETE"}, f \in {"F1", "F2", GhostForm}}
  \cup {FormRequest("forms.POST", "", b) :
          b \in {[title |-> "New"], [title |-> ""], [description |-> "New"]}}

\* URLs of the export routes: no parameter, the parameters the dashboard
\* sends, and every parameter of the schema.
ExportParams ==
  {<< >>,
   [format |-> "csv"],
   [format |-> "csv", includeMetadata |-> "false"],
   [format |-> "csv", includeMetadata |-> "false", fieldDelimiter |-> ";"],
   [format |-> "csv", includeMetadata |-> "false", fieldDelimiter |-> ",",
    includeFieldTypes |-> "true"],
   [format |-> "csv", fieldDelimiter |-> ";", includeMetadata |-> "true"],
   [format |-> "csv", formId |-> "F1", status |-> "NEW", dateRange |-> "all",
    search |-> "a", includeMetadata |-> "true", fieldDelimiter |-> ",",
    includeFieldTypes |-> "false"]}

ExportQueries ==
  {ExportQuery("responses.export", "", p) : p \in ExportParams}
  \cup {ExportQuery("form.export", f, p) : f \in {"F1", GhostForm}, p \in ExportParams}

\* A reader of the first response.
Readers == {ResponseRequest("response.GET", 1, << >>)}

\* Submissions through the other submission route, one of them with values
\* in another order than their fields; an update and a delete of the
\* response they create, and the delete of the field of a value.
PostedResponses ==
  {Request("responses", "F2", Undefined, << Entry("name", OptA) >>),
   Request("responses", "F1", Undefined,
           << Entry("tags", OptA), Entry("email", GoodAddress) >>)}

TagsDelete == FieldRequest("field.DELETE", "F1", "tags", << >>)

ResponseChanges ==
  {ResponseRequest("response.PUT", 1, [status |-> "READ"]),
   ResponseRequest("response.DELETE", 1, << >>)}

(***************************************************************************)
(* State outside the database: the store of the rate limiter, the clock     *)
(* Date.now() reads, the calls of the wrapped handler the middleware is     *)
(* awaiting, and the state of the form builder page.  calls is a history of *)
(* the limiter: for every key the times of its latest calls of the wrapped  *)
(* handler, at most limit + 1 of them.                                      *)
(***************************************************************************)
VARIABLES rateLimitStore, now, calls, waiting, fields, selectedField, dragOverIndex

limiter == << rateLimitStore, now, calls, waiting >>
builder == << fields, selectedField, dragOverIndex >>
allvars == << vars, limiter, builder >>

\* The routes of the database touch neither the limiter nor the builder.
OutsideRoutes == UNCHANGED << limiter, builder >>

(***************************************************************************)
(* The in-memory rate limiter withRateLimit(limit, windowMs).  A call of    *)
(* the returned middleware runs up to the call of the wrapped handler in    *)
(* one step and awaits the handler; when the handler returns, the           *)
(* middleware sets the headers from `current`, the object it stored in the  *)
(* Map, which later requests of the key have counted up in the meantime.    *)
(* Time is counted in milliseconds from the start of the process.           *)
(***************************************************************************)
\* The parameters of the limiter, and the last reading of the clock.
limit == 2
windowMs == 2
MaxTime == 5
\* At most MaxWaiting calls of the wrapped handler are awaited at a time.
MaxWaiting == 2

\* The values keyGenerator gives: the addresses of two clients.
Keys == {"k1", "k2"}

\* new Map()
EmptyStore == [k \in {} |-> [count |-> 0, resetTime |-> 0]]

TooManyRequests == "Too many requests"

\* The loop that deletes old entries: an entry goes when its resetTime is
\* before windowStart = now - windowMs.
CleanOldEntries(store, time) ==
  [k \in {e \in DOMAIN store : ~(store[e].resetTime < time - windowMs)} |-> store[k]]

\* rateLimitStore.get(key) || { count: 0, resetTime: now + windowMs }
CurrentEntry(store, key, time) ==
  IF key \in DOMAIN store
  THEN store[key]
  ELSE [count |-> 0, resetTime |-> time + windowMs]

\* rateLimitStore.set(key, current)
StoreSet(store, key, entry) ==
  [k \in DOMAIN store \cup {key} |-> IF k = key THEN entry ELSE store[k]]

\* The latest limit + 1 call times of a key, with one more.
Latest(times, time) ==
  IF Len(times) <= limit THEN Append(times, time)
  ELSE Append(Tail(times), time)

RateLimitRequest(key) == [route |-> "rateLimited", key |-> key]
RateLimitReturn(key) == [route |-> "rateLimited.return", key |-> key]

\* The invocations of the middleware that await the wrapped handler: the key,
\* and the object `current`.  While the Map holds the object (stored) its
\* fields are those of rateLimitStore[key]; once the cleaning loop has
\* deleted it from the Map no request changes it any more.
Slots == 1..MaxWaiting
NotWaiting == [key |-> "", current |-> [count |-> 0, resetTime |-> 0], stored |-> FALSE]
Awaiting(key, current) == [key |-> key, current |-> current, stored |-> TRUE]

\* The fields of the object `current` of a waiting invocation.
Current(store, w) == IF w.stored THEN store[w.key] ELSE w.current

\* The waiting invocations after the cleaning loop left `cleaned` of `store`.
Detached(invocations, store, cleaned) ==
  [s \in Slots |->
     IF invocations[s].stored /\ invocations[s].key \notin DOMAIN cleaned
     THEN [invocations[s] EXCEPT !.current = store[invocations[s].key], !.stored = FALSE]
     ELSE invocations[s]]

FreeSlot(invocations) ==
  CHOOSE s \in Slots : invocations[s] = NotWaiting
                          /\ \A t \in Slots : invocations[t] = NotWaiting => s <= t

\* Math.max(0, x)
Max0(x) == IF x < 0 THEN 0 ELSE x

\* The reply of the wrapped handler with the headers X-RateLimit-Remaining
\* and X-RateLimit-Reset the middleware sets.
Passed(entry) == Reply(200, "", << Max0(limit - entry.count), entry.resetTime >>)

\* The middleware on a request of this key: refuse with 429, or count the
\* request and call the wrapped handler.
RateLimited(key, current) ==
  /\ req' = RateLimitRequest(key)
  /\ IF current.count >= limit
     THEN /\ rateLimitStore' = CleanOldEntries(rateLimitStore, now)
          /\ res' = Reply(429, TooManyRequests, << >>)
          /\ waiting' = Detached(waiting, rateLimitStore,
                                 CleanOldEntries(rateLimitStore, now))
          /\ UNCHANGED calls
     ELSE /\ \E s \in Slots : waiting[s] = NotWaiting
          /\ rateLimitStore' =
               StoreSet(CleanOldEntries(rateLimitStore, now), key,
                        [current EXCEPT !.count = @ + 1])
          /\ res' = NoReply
          /\ waiting' =
               [Detached(waiting, rateLimitStore, CleanOldEntries(rateLimitStore, now))
                  EXCEPT ![FreeSlot(waiting)] =
                           Awaiting(key, [current EXCEPT !.count = @ + 1])]
          /\ calls' = [calls EXCEPT ![key] = Latest(@, now)]
  /\ UNCHANGED << form, formField, formResponse, responseField, handler, now, builder >>

WithRateLimit(key) ==
  RateLimited(key, CurrentEntry(CleanOldEntries(rateLimitStore, now), key, now))

\* What the wrapped handler gives: a NextResponse or another value it
\* returns, or an error it throws, which is an Error with a name, a code and
\* a message, or some other value.
Returns(kind) ==
  [kind |-> kind, isError |-> FALSE, name |-> "", code |-> "", message |-> ""]
Thrown(isError, name, code, message) ==
  [kind |-> "thrown", isError |-> isError, name |-> name, code |-> code,
   message |-> message]

HandlerResults ==
  {Returns("NextResponse"), Returns("value")}
    \cup {Thrown(TRUE, "ZodError", "", "invalid"), Thrown(TRUE, "Error", "", "failed"),
          Thrown(TRUE, "PrismaClientKnownRequestError", "P2025", "failed")}

\* The catch block of withErrorHandler, which wraps the middleware.
withErrorHandler(error) ==
  IF ~error.isError THEN Reply(500, "An unexpected error occurred", << >>)
  ELSE IF error.name = "ZodError" THEN Reply(400, "Validation failed", << >>)
  ELSE IF error.name = "PrismaClientKnownRequestError" /\ error.code = "P2002"
  THEN Reply(409, "Duplicate entry", << >>)
  ELSE IF error.name = "PrismaClientKnownRequestError" /\ error.code = "P2025"
  THEN Reply(404, "Resource not found", << >>)
  ELSE IF error.name = "PrismaClientKnownRequestError" /\ error.code = "P2003"
  THEN Reply(400, "Referenced resource not found", << >>)
  ELSE Reply(500, IF error.message = "" THEN "An unexpected error occurred"
                  ELSE error.message, << >>)

\* The wrapped handler of a waiting invocation returns or throws: a
\* NextResponse gets the headers, another value is passed on as it is, and an
\* error is answered by withErrorHandler.
HandlerReturns(s, result) ==
  /\ waiting[s] # NotWaiting
  /\ req' = RateLimitReturn(waiting[s].key)
  /\ res' = IF result.kind = "NextResponse"
            THEN Passed(Current(rateLimitStore, waiting[s]))
            ELSE IF result.kind = "value" THEN Reply(200, "", << >>)
            ELSE withErrorHandler(result)
  /\ waiting' = [waiting EXCEPT ![s] = NotWaiting]
  /\ UNCHANGED << form, formField, formResponse, responseField, handler,
                  rateLimitStore, now, calls, builder >>

\* A millisecond passes.
Tick ==
  /\ now < MaxTime
  /\ now' = now + 1
  /\ UNCHANGED << vars, rateLimitStore, calls, waiting, builder >>

(***************************************************************************)
(* The form builder page: the list of fields and the selected field of      *)
(* FormBuilderPage, and dragOverIndex of FormCanvas.  One call of a handler *)
(* is one step; the page has rendered again before the next handler runs.   *)
(***************************************************************************)
\* No more drops are made once the list has MaxFields fields, and the clock
\* of the page is read up to MaxBuilderTime.
MaxFields == 2
MaxBuilderTime == 2

\* selectedField = null and dragOverIndex = null
NoField == [id |-> -1]
NoIndex == -1

\* The field types of the palette that are dragged: `id` and `name`.
FieldPaletteTypes ==
  {[id |-> "email", name |-> "Email"], [id |-> "dropdown", name |-> "Dropdown"]}

\* placeholders[fieldType] || ""
getDefaultPlaceholder(fieldType) ==
  CASE fieldType = "short-text" -> "Enter text here"
    [] fieldType = "long-text" -> "Enter your response here"
    [] fieldType = "email" -> "Enter your email address"
    [] fieldType = "phone" -> "Enter your phone number"
    [] fieldType = "number" -> "Enter a number"
    [] fieldType = "url" -> "Enter a URL"
    [] OTHER -> ""

getDefaultOptions(fieldType) ==
  IF fieldType \in {"dropdown", "radio", "checkbox"}
  THEN << "Option 1", "Option 2", "Option 3" >>
  ELSE Undefined

\* The new field of handleDrop; its id is `field-${Date.now()}`.
newField(fieldType, time) ==
  [id |-> time, type |-> fieldType.id, label |-> fieldType.name,
   placeholder |-> getDefaultPlaceholder(fieldType.id), required |-> FALSE,
   options |-> getDefaultOptions(fieldType.id)]

\* list.splice(start, 0, item) on a copy: start counts from 0 and is cut
\* down to the length of the list.
SpliceIn(list, start, item) ==
  [i \in 1..(Len(list) + 1) |->
     IF i <= start /\ i <= Len(list) THEN list[i]
     ELSE IF i = start + 1 \/ (start >= Len(list) /\ i = Len(list) + 1) THEN item
     ELSE list[i - 1]]

\* list.splice(start, 1) on a copy: the list without the element at start.
SpliceOut(list, start) ==
  [i \in 1..(Len(list) - 1) |-> IF i <= start THEN list[i] ELSE list[i + 1]]

\* handleDrop with a field type in the transferred data
handleDrop(fieldType) ==
  /\ Len(fields) < MaxFields
  /\ fields' = SpliceIn(fields,
                        IF dragOverIndex = NoIndex THEN Len(fields) ELSE dragOverIndex,
                        newField(fieldType, now))
  /\ dragOverIndex' = NoIndex
  /\ UNCHANGED << vars, limiter, selectedField >>

\* handleDragOver on the field at `index` or on the drop zone at the end
handleDragOver(index) ==
  /\ index \in 0..Len(fields)
  /\ dragOverIndex' = index
  /\ UNCHANGED << vars, limiter, fields, selectedField >>

handleDragLeave ==
  /\ dragOverIndex' = NoIndex
  /\ UNCHANGED << vars, limiter, fields, selectedField >>

\* onFieldSelect(field) of a rendered field
onFieldSelect(index) ==
  /\ index \in 1..Len(fields)
  /\ selectedField' = fields[index]
  /\ UNCHANGED << vars, limiter, fields, dragOverIndex >>

\* fields.filter(f => f.id !== fieldId)
WithoutId(list, fieldId) ==
  LET Other(f) == f.id # fieldId
  IN  SelectSeq(list, Other)

\* deleteField(field.id) of a rendered field
deleteField(fieldId) ==
  /\ \E i \in 1..Len(fields) : fields[i].id = fieldId
  /\ fields' = WithoutId(fields, fieldId)
  /\ selectedField' = IF selectedField.id = fieldId THEN NoField ELSE selectedField
  /\ UNCHANGED << vars, limiter, dragOverIndex >>

\* The index at which array.splice(start, ...) begins: a negative start
\* counts from the end, and the index lies within the array or at its end.
SpliceStart(length, start) ==
  IF start < 0
  THEN (IF length + start < 0 THEN 0 ELSE length + start)
  ELSE (IF start > length THEN length ELSE start)

\* What destructuring takes from an empty array.
UndefinedField == [undefined |-> TRUE]

\* moveField(fromIndex, toIndex): splice(fromIndex, 1) takes the field out,
\* if there is one at that index, and splice(toIndex, 0, movedField) puts in
\* what was taken out.  No event of the page is bound to moveField, so it is
\* no step of the builder.
moveField(fromIndex, toIndex) ==
  LET from == SpliceStart(Len(fields), fromIndex)
      taken == from < Len(fields)
      newFields == IF taken THEN SpliceOut(fields, from) ELSE fields
      movedField == IF taken THEN fields[from + 1] ELSE UndefinedField
  IN  /\ fields' = SpliceIn(newFields, SpliceStart(Len(newFields), toIndex), movedField)
      /\ UNCHANGED << vars, limiter, selectedField, dragOverIndex >>

\* handleFieldUpdate(updatedField): FieldSettings hands over the selected
\* field with the changed attribute.
handleFieldUpdate(updatedField) ==
  /\ fields' = [i \in 1..Len(fields) |->
                  IF fields[i].id = updatedField.id THEN updatedField ELSE fields[i]]
  /\ UNCHANGED << vars, limiter, selectedField, dragOverIndex >>

\* updateField({ required: true }) of FieldSettings
RequiredSet(field) == [field EXCEPT !.required = TRUE]

(***************************************************************************)
(* Specifications.                                                          *)
(***************************************************************************)
Init ==
  /\ form \in {SeedForms(n) : n \in 0..LimitN}
  /\ formField = SeedFields
  /\ formResponse = << >>
  /\ responseField = << >>
  /\ req = NoRequest
  /\ res = NoReply
  /\ handler = [h \in Handlers |-> IdleHandler]
  /\ rateLimitStore = EmptyStore
  /\ now = 0
  /\ calls = [k \in Keys |-> << >>]
  /\ waiting = [s \in Slots |-> NotWaiting]
  /\ fields = << >>
  /\ selectedField = NoField
  /\ dragOverIndex = NoIndex

\* The invocation that serves the requests when they come one at a time: the
\* next request is taken when the reply to the last one is out.
First == CHOOSE h \in Handlers : \A g \in Handlers : h <= g

\* Both submission routes and the settings of the limited form, one request
\* at a time.
Next ==
  \/ OutsideRoutes /\ \E r \in Requests \cup UnparsableRequests \cup SettingsChanges :
                         Begin(First, r)
  \/ OutsideRoutes /\ FindUnique(First)
  \/ OutsideRoutes /\ Count(First)
  \/ OutsideRoutes /\ FindFirst(First)
  \/ OutsideRoutes /\ Create(First)
  \/ OutsideRoutes /\ CreateMany(First)
  \/ OutsideRoutes /\ ResponsesFindUnique(First)
  \/ OutsideRoutes /\ ResponsesCreate(First)
  \/ OutsideRoutes /\ ResponsesCreateMany(First)
  \/ OutsideRoutes /\ ResponsesFindCreated(First)
  \/ OutsideRoutes /\ FormPutFindUnique(First)
  \/ OutsideRoutes /\ FormPutUpdate(First)
  \/ OutsideRoutes /\ StoreError(First)
  \/ OutsideRoutes /\ Return(First)

Spec == Init /\ [][Next]_vars

\* The submit route alone, one request at a time.
NextSubmit ==
  \/ OutsideRoutes /\ \E r \in Requests : r.route = "submit" /\ Begin(First, r)
  \/ OutsideRoutes /\ FindUnique(First)
  \/ OutsideRoutes /\ Count(First)
  \/ OutsideRoutes /\ FindFirst(First)
  \/ OutsideRoutes /\ Create(First)
  \/ OutsideRoutes /\ CreateMany(First)
  \/ OutsideRoutes /\ StoreError(First)
  \/ OutsideRoutes /\ Return(First)

SpecSubmit == Init /\ [][NextSubmit]_vars

\* The submit route with every payload of ValidationRequests while forms are
\* archived and published, one request at a time.
NextValidation ==
  \/ OutsideRoutes /\ Len(formResponse) < MaxValidated
          /\ \E r \in ValidationRequests : Begin(First, r)
  \/ OutsideRoutes /\ \E r \in StatusChanges : Begin(First, r)
  \/ OutsideRoutes /\ FindUnique(First)
  \/ OutsideRoutes /\ Count(First)
  \/ OutsideRoutes /\ Create(First)
  \/ OutsideRoutes /\ CreateMany(First)
  \/ OutsideRoutes /\ FormPutFindUnique(First)
  \/ OutsideRoutes /\ FormPutUpdate(First)
  \/ OutsideRoutes /\ StoreError(First)
  \/ OutsideRoutes /\ Return(First)

SpecValidation == Init /\ [][NextValidation]_vars

\* Invocations of the submit route and readers of the responses, interleaved
\* at their database calls.
NextConcurrent ==
  \E h \in Handlers :
     \/ OutsideRoutes /\ \E r \in ConcurrentRequests \cup Readers : Begin(h, r)
     \/ OutsideRoutes /\ FindUnique(h)
     \/ OutsideRoutes /\ Count(h)
     \/ OutsideRoutes /\ FindFirst(h)
     \/ OutsideRoutes /\ Create(h)
     \/ OutsideRoutes /\ CreateMany(h)
     \/ OutsideRoutes /\ ResponseGetFindUnique(h)
     \/ OutsideRoutes /\ StoreError(h)
     \/ OutsideRoutes /\ Return(h)

SpecConcurrent == Init /\ [][NextConcurrent]_vars

\* The field routes, one request at a time.
NextFields ==
  \/ OutsideRoutes /\ \E r \in FieldRequests : Begin(First, r)
  \/ OutsideRoutes /\ FieldsPostFindUnique(First)
  \/ OutsideRoutes /\ FieldsPostCreate(First)
  \/ OutsideRoutes /\ FieldsPutFindUnique(First)
  \/ OutsideRoutes /\ FieldsPutTransaction(First)
  \/ OutsideRoutes /\ \E done \in 0..MaxBatch : FieldsPUTStopped(First, done)
  \/ OutsideRoutes /\ FieldsPutFindMany(First)
  \/ OutsideRoutes /\ FieldGetFindUnique(First)
  \/ OutsideRoutes /\ FieldPutFindUnique(First)
  \/ OutsideRoutes /\ FieldPutUpdate(First)
  \/ OutsideRoutes /\ FieldDeleteFindUnique(First)
  \/ OutsideRoutes /\ \E cascade \in BOOLEAN : FieldDeleteDelete(First, cascade)
  \/ OutsideRoutes /\ FieldDeleteFindMany(First)
  \/ OutsideRoutes /\ FieldDeleteTransaction(First)
  \/ OutsideRoutes /\ StoreError(First)
  \/ OutsideRoutes /\ Return(First)

SpecFields == Init /\ [][NextFields]_vars

\* Invocations of the other submission route, readers, updates and deletes
\* of responses, and the delete of a field, interleaved at their database
\* calls.
NextResponsesConcurrent ==
  \E h \in Handlers :
     \/ OutsideRoutes /\ Len(formResponse) < MaxValidated
             /\ \E r \in PostedResponses : Begin(h, r)
     \/ OutsideRoutes /\ \E r \in Readers \cup ResponseChanges \cup {TagsDelete} :
                            Begin(h, r)
     \/ OutsideRoutes /\ FieldDeleteFindUnique(h)
     \/ OutsideRoutes /\ \E cascade \in BOOLEAN : FieldDeleteDelete(h, cascade)
     \/ OutsideRoutes /\ FieldDeleteFindMany(h)
     \/ OutsideRoutes /\ FieldDeleteTransaction(h)
     \/ OutsideRoutes /\ ResponsesFindUnique(h)
     \/ OutsideRoutes /\ ResponsesCreate(h)
     \/ OutsideRoutes /\ ResponsesCreateMany(h)
     \/ OutsideRoutes /\ ResponsesFindCreated(h)
     \/ OutsideRoutes /\ ResponseGetFindUnique(h)
     \/ OutsideRoutes /\ ResponsePutFindUnique(h)
     \/ OutsideRoutes /\ ResponsePutUpdate(h)
     \/ OutsideRoutes /\ ResponseDeleteFindUnique(h)
     \/ OutsideRoutes /\ ResponseDeleteDelete(h)
     \/ OutsideRoutes /\ StoreError(h)
     \/ OutsideRoutes /\ Return(h)

SpecResponsesConcurrent == Init /\ [][NextResponsesConcurrent]_vars

\* Field updates and field deletes interleaved at their database calls.
NextFieldsConcurrent ==
  \E h \in Handlers :
     \/ OutsideRoutes /\ \E r \in FieldRequests :
           r.route \in {"field.PUT", "field.DELETE"} /\ Begin(h, r)
     \/ OutsideRoutes /\ FieldPutFindUnique(h)
     \/ OutsideRoutes /\ FieldPutUpdate(h)
     \/ OutsideRoutes /\ FieldDeleteFindUnique(h)
     \/ OutsideRoutes /\ \E cascade \in BOOLEAN : FieldDeleteDelete(h, cascade)
     \/ OutsideRoutes /\ FieldDeleteFindMany(h)
     \/ OutsideRoutes /\ FieldDeleteTransaction(h)
     \/ OutsideRoutes /\ StoreError(h)
     \/ OutsideRoutes /\ Return(h)

SpecFieldsConcurrent == Init /\ [][NextFieldsConcurrent]_vars

\* Submissions and the dashboard routes, one request at a time.
NextDashboard ==
  \/ OutsideRoutes /\ \E r \in ConcurrentRequests \cup DashboardRequests : Begin(First, r)
  \/ OutsideRoutes /\ FindUnique(First)
  \/ OutsideRoutes /\ Count(First)
  \/ OutsideRoutes /\ FindFirst(First)
  \/ OutsideRoutes /\ Create(First)
  \/ OutsideRoutes /\ CreateMany(First)
  \/ OutsideRoutes /\ ResponseGetFindUnique(First)
  \/ OutsideRoutes /\ ResponsePutFindUnique(First)
  \/ OutsideRoutes /\ ResponsePutUpdate(First)
  \/ OutsideRoutes /\ ResponseDeleteFindUnique(First)
  \/ OutsideRoutes /\ ResponseDeleteDelete(First)
  \/ OutsideRoutes /\ BulkUpdateMany(First)
  \/ OutsideRoutes /\ BulkDeleteMany(First)
  \/ OutsideRoutes /\ StoreError(First)
  \/ OutsideRoutes /\ Return(First)

SpecDashboard == Init /\ [][NextDashboard]_vars

\* Submissions and the form routes, one request at a time.
NextForms ==
  \/ OutsideRoutes /\ \E r \in ConcurrentRequests \cup FormRequests : Begin(First, r)
  \/ OutsideRoutes /\ FindUnique(First)
  \/ OutsideRoutes /\ Count(First)
  \/ OutsideRoutes /\ FindFirst(First)
  \/ OutsideRoutes /\ Create(First)
  \/ OutsideRoutes /\ CreateMany(First)
  \/ OutsideRoutes /\ FormGetFindUnique(First)
  \/ OutsideRoutes /\ FormPutFindUnique(First)
  \/ OutsideRoutes /\ FormPutUpdate(First)
  \/ OutsideRoutes /\ FormDeleteFindUnique(First)
  \/ OutsideRoutes /\ \E cascade \in BOOLEAN : FormDeleteDelete(First, cascade)
  \/ OutsideRoutes /\ \E status \in FormStatuses : FormsPostCreate(First, status)
  \/ OutsideRoutes /\ StoreError(First)
  \/ OutsideRoutes /\ Return(First)

SpecForms == Init /\ [][NextForms]_vars

\* Submissions and requests of the export routes, one request at a time.
NextExport ==
  \/ OutsideRoutes /\ Len(formResponse) < MaxExported
          /\ \E r \in ExportSubmissions : Begin(First, r)
  \/ OutsideRoutes /\ \E r \in ExportQueries : Begin(First, r)
  \/ OutsideRoutes /\ FindUnique(First)
  \/ OutsideRoutes /\ Create(First)
  \/ OutsideRoutes /\ CreateMany(First)
  \/ OutsideRoutes /\ Return(First)

SpecExport == Init /\ [][NextExport]_vars


\* Requests of two clients through the rate limiter while time passes.
NextRateLimit ==
  \/ \E key \in Keys : WithRateLimit(key)
  \/ \E s \in Slots : \E result \in HandlerResults : HandlerReturns(s, result)
  \/ Tick

SpecRateLimit == Init /\ [][NextRateLimit]_allvars

\* The handlers of the form builder while time passes.
NextBuilder ==
  \/ \E fieldType \in FieldPaletteTypes : handleDrop(fieldType)
  \/ \E index \in 0..MaxFields : handleDragOver(index)
  \/ handleDragLeave
  \/ \E index \in 1..MaxFields : onFieldSelect(index)
  \/ \E i \in 1..Len(fields) : deleteField(fields[i].id)
  \/ selectedField # NoField /\ handleFieldUpdate(RequiredSet(selectedField))
  \/ now < MaxBuilderTime /\ Tick

SpecBuilder == Init /\ [][NextBuilder]_allvars
(***************************************************************************)
(* Vocabulary of the properties.  The properties of single requests are     *)
(* stated for requests that are served one at a time, by the invocation     *)
(* `served`, and for the invocations whose database calls return: a call    *)
(* that throws, or a body that is not JSON, ends in the reply 500.          *)
(***************************************************************************)
served == handler[First]

\* The served invocation of this route replies in this step.
Replies(route) ==
  /\ served.pc # "done"
  /\ served'.pc = "done"
  /\ served'.req.route = route

\* It replies and the reply is not the 500 of a failed call.
Answers(route) == Replies(route) /\ served'.res.status # 500

\* This step is a step of the served invocation of this route after its start.
Serving(route) == served.pc \notin {"idle", "done"} /\ served.req.route = route

\* This step answers a request of the submit route whose body satisfies
\* submitFormSchema.  A body that does not is answered 400 'Invalid request
\* data' before the form is read, whatever the state of the form.
SubmitHandled == Answers("submit") /\ SubmitSchemaOk(served'.req)

TablesUnchanged == formResponse' = formResponse /\ responseField' = responseField

\* The invocation that replies has stored nothing.
NothingStored == TablesUnchanged /\ served'.responseId = 0

\* The rows without the row of this id.
RowsBut(rows, id) ==
  LET Other(row) == row.id # id
  IN  SelectSeq(rows, Other)

\* The responses that were stored when the request arrived: all but the one
\* the invocation has created.
StoredAtArrival == RowsBut(formResponse, served'.responseId)

\* The value has a character that is not white space.
NonBlank(v) == \E k \in 1..Len(v) : v[k] \notin Whitespace

HasNonBlankEntry(entries, fieldId) ==
  \E k \in 1..Len(entries) :
     entries[k].fieldId = fieldId /\ NonBlank(entries[k].value)

\* Number of stored responses of a form.
CountOf(rows, formId) == Cardinality({i \in 1..Len(rows) : rows[i].formId = formId})

\* How often an error occurs in a details list.
Occurrences(details, e) == Cardinality({d \in 1..Len(details) : details[d] = e})

\* The form named by the request exists, is published and was below its
\* limit when the request arrived.
OpenForSubmission(r) ==
  /\ r.formId \in DOMAIN form
  /\ form[r.formId].status = "PUBLISHED"
  /\ ~(/\ form[r.formId].settings.maxSubmissions > 0
       /\ CountOf(StoredAtArrival, r.formId) >= form[r.formId].settings.maxSubmissions)

\* The fields of a form, as a set of rows.
FieldsOf(formId) ==
  {formField[i] : i \in {j \in 1..Len(formField) : formField[j].formId = formId}}

(***************************************************************************)
(* C1.  A submission to a form whose status is DRAFT or ARCHIVED is         *)
(* rejected with the 'not accepting submissions' error whatever its         *)
(* payload, valid or invalid, and the stored responses and values are       *)
(* unchanged.                                                               *)
(***************************************************************************)
C1_NotPublishedRejected ==
  [][ (/\ Answers("submit")
       /\ served'.req.formId \in DOMAIN form
       /\ form[served'.req.formId].status \in {"DRAFT", "ARCHIVED"})
      => (served'.res = Reply(400, NotAccepting, << >>) /\ NothingStored) ]_vars

(***************************************************************************)
(* C2.  In a submission to a published form, a required non-section field   *)
(* gets a 'required' error naming its label if and only if the payload has  *)
(* no entry for it with a non-blank value; when the error is raised no      *)
(* response is created.                                                     *)
(***************************************************************************)
C2_RequiredIffNoNonBlankEntry ==
  [][ (SubmitHandled /\ OpenForSubmission(served'.req))
      => \A F \in FieldsOf(served'.req.formId) :
            (F.required /\ F.type # "SECTION")
            => /\ Occurrences(served'.res.details, RequiredError(F.label)) > 0
                  <=> ~HasNonBlankEntry(served'.req.fields, F.id)
               /\ Occurrences(served'.res.details, RequiredError(F.label)) > 0
                  => NothingStored ]_vars

(***************************************************************************)
(* C3.  For a dropdown, radio or checkbox field with options, a submission  *)
(* is rejected with a validation error and creates no response whenever a   *)
(* dropdown or radio value is not itself one of the options, or a comma     *)
(* separated token of a checkbox value is not one of the options.           *)
(***************************************************************************)
C3_ValueOutsideOptionsRejected ==
  [][ (SubmitHandled /\ OpenForSubmission(served'.req))
      => \A k \in 1..Len(served'.req.fields) : \A F \in FieldsOf(served'.req.formId) :
            LET value  == served'.req.fields[k].value
                tokens == Split(value)
                outside ==
                  IF F.type \in {"DROPDOWN", "RADIO"}
                  THEN ~Includes(F.options, value)
                  ELSE \E t \in 1..Len(tokens) : ~Includes(F.options, tokens[t])
            IN  (/\ F.id = served'.req.fields[k].fieldId
                 /\ F.type \in {"DROPDOWN", "RADIO", "CHECKBOX"}
                 /\ Len(F.options) > 0
                 /\ NonBlank(value)
                 /\ outside)
                => /\ served'.res.status = 400
                   /\ served'.res.error = ValidationFailed
                   /\ NothingStored ]_vars

(***************************************************************************)
(* C4.  On a published form whose maxSubmissions N > 0 is reached by the    *)
(* stored responses, a submission is rejected with the single 'submission   *)
(* limit' error, without field errors whatever the payload holds, and       *)
(* no response is created.                                                  *)
(***************************************************************************)
C4_LimitShortCircuits ==
  [][ (/\ Answers("submit")
       /\ served'.req.formId \in DOMAIN form
       /\ form[served'.req.formId].status = "PUBLISHED"
       /\ form[served'.req.formId].settings.maxSubmissions > 0
       /\ CountOf(StoredAtArrival, served'.req.formId)
             >= form[served'.req.formId].settings.maxSubmissions)
      => (served'.res = Reply(400, LimitError, << >>) /\ NothingStored) ]_vars

(***************************************************************************)
(* C5.  A submission rejected for validation lists exactly one error for    *)
(* each required field that is missing or blank and exactly one error for   *)
(* each non-blank entry that fails its format check or its option check,    *)
(* and nothing else.                                                        *)
(***************************************************************************)
\* The entry fails the format check of its field or names an unknown option.
EntryFails(F, value) ==
  \/ ~fieldValidators(F.type, value)
  \/ /\ F.type \in {"DROPDOWN", "RADIO", "CHECKBOX"}
     /\ Len(F.options) > 0
     /\ \E t \in 1..Len(Split(value)) :
           /\ NonBlank(Split(value)[t])
           /\ ~Includes(F.options, Trim(Split(value)[t]))

C5_AllFailuresListedOnce ==
  [][ (SubmitHandled /\ served'.res.error = ValidationFailed)
      => \A F \in FieldsOf(served'.req.formId) :
            LET failing == {k \in 1..Len(served'.req.fields) :
                              /\ served'.req.fields[k].fieldId = F.id
                              /\ NonBlank(served'.req.fields[k].value)
                              /\ EntryFails(F, served'.req.fields[k].value)}
                listed  == {d \in 1..Len(served'.res.details) :
                              /\ served'.res.details[d].label = F.label
                              /\ served'.res.details[d].kind # "required"}
            IN  /\ Occurrences(served'.res.details, RequiredError(F.label))
                     = IF F.required /\ ~HasNonBlankEntry(served'.req.fields, F.id)
                       THEN 1 ELSE 0
                /\ Cardinality(listed) = Cardinality(failing) ]_vars

(***************************************************************************)
(* C6.  An accepted submission appends exactly one response of the form     *)
(* with status NEW and one value row per entry whose value is not blank;    *)
(* a submission rejected with 400 or 404 leaves both tables unchanged.      *)
(***************************************************************************)
\* The stored values of a response.
ValuesOf(values, id) == {i \in 1..Len(values) : values[i].responseId = id}

C6_AcceptedStoresNonBlankEntries ==
  [][ /\ Serving("submit")
         => \* a step of the handler stores nothing, or the one response, or
            \* values of that response
            /\ \/ formResponse' = formResponse /\ served'.responseId = served.responseId
               \/ /\ served.responseId = 0
                  /\ served'.responseId # 0
                  /\ \A j \in 1..Len(formResponse) : formResponse[j].id # served'.responseId
                  /\ formResponse' =
                       Append(formResponse,
                              [formResponse'[Len(formResponse')] EXCEPT
                                 !.id = served'.responseId,
                                 !.formId = served.req.formId,
                                 !.status = "NEW"])
            /\ Len(responseField') >= Len(responseField)
            /\ \A i \in 1..Len(responseField) : responseField'[i] = responseField[i]
            /\ \A i \in (Len(responseField) + 1)..Len(responseField') :
                  responseField'[i].responseId = served.responseId /\ served.responseId # 0
      /\ (SubmitHandled /\ served'.res.status = 201)
         => LET kept == {k \in 1..Len(served'.req.fields) :
                           NonBlank(served'.req.fields[k].value)}
            IN  /\ served'.responseId # 0
                /\ Cardinality(ValuesOf(responseField', served'.responseId))
                      = Cardinality(kept)
                /\ \A k \in kept :
                      \E i \in ValuesOf(responseField', served'.responseId) :
                         responseField'[i] = [responseId |-> served'.responseId,
                                              fieldId |-> served'.req.fields[k].fieldId,
                                              value |-> served'.req.fields[k].value]
      /\ (SubmitHandled /\ served'.res.status \in {400, 404}) => NothingStored ]_vars

\* An accepted payload with one blank and one non-blank entry stored one value.
C6_Witness ==
  /\ served.pc = "done"
  /\ served.req = Request("submit", "F1", Undefined,
                          << Entry("email", GoodAddress), Entry("email", Blank) >>)
  /\ served.res.status = 201
  /\ Len(formResponse) = 1
  /\ responseField = << [responseId |-> 1, fieldId |-> "email", value |-> GoodAddress] >>

(***************************************************************************)
(* C7.  A response and its values are created all or nothing: in no state,  *)
(* also not between the two writes or after a store failure, is a response  *)
(* stored while the non-blank values submitted with it are absent.          *)
(***************************************************************************)
C7_ResponseNeverWithoutValues ==
  \A h \in Handlers :
     handler[h].responseId # 0
     => \A k \in 1..Len(handler[h].req.fields) :
           NonBlank(handler[h].req.fields[k].value)
           => \E i \in 1..Len(responseField) :
                 responseField[i] = [responseId |-> handler[h].responseId,
                                     fieldId |-> handler[h].req.fields[k].fieldId,
                                     value |-> handler[h].req.fields[k].value]

(***************************************************************************)
(* C8.  With requests handled one at a time, a form with maxSubmissions     *)
(* N > 0 never has more than N stored responses, whichever of the two       *)
(* routes creates them.                                                     *)
(***************************************************************************)
C8_NeverMoreThanLimit ==
  \A f \in DOMAIN form :
     form[f].settings.maxSubmissions > 0
     => CountOf(formResponse, f) <= form[f].settings.maxSubmissions

(***************************************************************************)
(* C9.  Interleaved submissions can pass the limit check together and       *)
(* overshoot the limit: a state with more than N responses is reachable     *)
(* (the witness), and the overshoot is small, at most one response per      *)
(* further invocation in flight.                                            *)
(***************************************************************************)
C9_OvershootBounded ==
  \A f \in DOMAIN form :
     form[f].settings.maxSubmissions > 0
     => CountOf(formResponse, f)
           <= form[f].settings.maxSubmissions + NumHandlers - 1

\* Two invocations were both accepted on a form that had N - 1 responses.
C9_Witness ==
  /\ form["F2"].settings.maxSubmissions > 0
  /\ CountOf(formResponse, "F2") = form["F2"].settings.maxSubmissions + 1
  /\ \E g \in Handlers : \E h \in Handlers :
        /\ g # h
        /\ handler[g].req.route = "submit" /\ handler[h].req.route = "submit"
        /\ handler[g].req.formId = "F2" /\ handler[g].res.status = 201
        /\ handler[h].req.formId = "F2" /\ handler[h].res.status = 201
        /\ {handler[g].responseId, handler[h].responseId}
              = {Len(formResponse) - 1, Len(formResponse)}

(***************************************************************************)
(* C10.  On a published form with preventDuplicates, a submission whose     *)
(* respondent email equals, character for character, the email of a stored  *)
(* response of the same form is rejected and creates nothing; the           *)
(* duplicate check rejects in no other case; so no two responses of such a  *)
(* form share an email.                                                     *)
(***************************************************************************)
\* Some response of the form among the rows carries exactly this address.
SameEmailStored(rows, formId, email) ==
  \E i \in 1..Len(rows) : rows[i].formId = formId /\ rows[i].respondentEmail = email

NoSharedEmail ==
  \A i \in 1..Len(formResponse) : \A j \in 1..Len(formResponse) :
     (/\ i # j
      /\ formResponse[i].formId = formResponse[j].formId
      /\ form[formResponse[i].formId].settings.preventDuplicates
      /\ formResponse[i].respondentEmail # Null)
     => formResponse[i].respondentEmail # formResponse[j].respondentEmail

C10_DuplicateEmailRejected ==
  [][ /\ SubmitHandled
         => LET supplied == served'.req.respondentEmail \notin {Undefined, Empty}
                guarded  == /\ served'.req.formId \in DOMAIN form
                            /\ form[served'.req.formId].status = "PUBLISHED"
                            /\ form[served'.req.formId].settings.preventDuplicates
                repeated == SameEmailStored(StoredAtArrival, served'.req.formId,
                                            served'.req.respondentEmail)
            IN  /\ (guarded /\ supplied /\ repeated)
                   => (served'.res.status = 400 /\ NothingStored)
                /\ served'.res.error = AlreadySubmitted
                   => (guarded /\ supplied /\ repeated)
      /\ NoSharedEmail' ]_vars

\* A repeated address was turned away while the same address in another case
\* is stored next to it.
C10_Witness ==
  /\ served.pc = "done"
  /\ served.req.route = "submit" /\ served.req.formId = "F1"
  /\ served.req.respondentEmail = LowerEmail
  /\ served.res = Reply(400, AlreadySubmitted, << >>)
  /\ SameEmailStored(formResponse, "F1", LowerEmail)
  /\ SameEmailStored(formResponse, "F1", UpperEmail)

(***************************************************************************)
(* C11.  Whatever submissions were made through the two routes, no stored   *)
(* value is empty after trimming: blank entries are left out.               *)
(***************************************************************************)
C11_NoBlankValueStored ==
  \A i \in 1..Len(responseField) : NonBlank(responseField[i].value)

(***************************************************************************)
(* C12.  An entry whose fieldId is no field of the form raises no error,    *)
(* does not cause a rejection, and no value is stored for it: the values    *)
(* stored by an accepted submission all reference fields of the form.       *)
(***************************************************************************)
\* The entries of the payload that name a field of the form.
RECURSIVE EntriesOfForm(_, _)
EntriesOfForm(entries, formId) ==
  IF entries = << >> THEN << >>
  ELSE (IF \E F \in FieldsOf(formId) : F.id = Head(entries).fieldId
        THEN << Head(entries) >> ELSE << >>)
       \o EntriesOfForm(Tail(entries), formId)

C12_UnknownEntriesIgnored ==
  [][ (SubmitHandled /\ OpenForSubmission(served'.req))
      => /\ served'.res.details
              = validationErrors(FormFields(served'.req.formId),
                                 EntriesOfForm(served'.req.fields, served'.req.formId))
         /\ served'.res.status \in {201, 400}
         /\ served'.res.status = 201
            => \A i \in ValuesOf(responseField', served'.responseId) :
                  \E F \in FieldsOf(served'.req.formId) : F.id = responseField'[i].fieldId ]_vars

(***************************************************************************)
(* C13.  A section field is exempt from the required check: a submission    *)
(* to a published form gets no 'required' error for a section field, so a   *)
(* form whose only required field is a section accepts a payload without    *)
(* an entry for it.                                                         *)
(***************************************************************************)
C13_SectionExemptFromRequired ==
  [][ (SubmitHandled /\ OpenForSubmission(served'.req))
      => \A F \in FieldsOf(served'.req.formId) :
            F.type = "SECTION"
            => Occurrences(served'.res.details, RequiredError(F.label)) = 0 ]_vars

(***************************************************************************)
(* Vocabulary of the field routes.                                          *)
(***************************************************************************)
\* This step answers a request of the given field route.
FieldRouteHandled(route) == Answers(route)

\* The request names a field that the form of the request has.
TargetField(rows, r) ==
  {i \in 1..Len(rows) : rows[i].id = r.fieldId /\ rows[i].formId = r.formId}

ChoiceFieldsHaveOptions(rows) ==
  \A i \in 1..Len(rows) :
     rows[i].type \in {"DROPDOWN", "RADIO", "CHECKBOX"} => Len(rows[i].options) >= 1

\* The order values of the fields of a form, and how many fields it has.
OrdersOf(rows, formId) ==
  {rows[i].order : i \in {j \in 1..Len(rows) : rows[j].formId = formId}}

FieldCount(rows, formId) == Cardinality({i \in 1..Len(rows) : rows[i].formId = formId})

(***************************************************************************)
(* C14.  Creating a dropdown, radio or checkbox field without options, and  *)
(* setting the options of such a field to the empty list, are rejected      *)
(* with 400 and change nothing; so after any field creations and updates    *)
(* every stored choice field has at least one option.                       *)
(***************************************************************************)
C14_ChoiceFieldsKeepOptions ==
  [][ /\ (/\ FieldRouteHandled("fields.POST")
          /\ served'.req.formId \in DOMAIN form
          /\ served'.req.body.type \in {"DROPDOWN", "RADIO", "CHECKBOX"}
          /\ ("options" \in DOMAIN served'.req.body => served'.req.body.options = << >>))
         => (served'.res.status = 400 /\ formField' = formField)
      /\ (/\ FieldRouteHandled("field.PUT")
          /\ \E i \in TargetField(formField, served'.req) :
                formField[i].type \in {"DROPDOWN", "RADIO", "CHECKBOX"}
          /\ "options" \in DOMAIN served'.req.body
          /\ served'.req.body.options = << >>)
         => (served'.res.status = 400 /\ formField' = formField)
      /\ ChoiceFieldsHaveOptions(formField') ]_vars

\* A checkbox field was created with an option, and the update that would
\* have emptied its options was turned away.
C14_Witness ==
  /\ served.pc = "done"
  /\ served.req = FieldRequest("field.PUT", "F1", FieldIdPool[1],
                               [options |-> << >>, required |-> TRUE])
  /\ served.res = Reply(400, OptionsRequired, << >>)
  /\ \E i \in 1..Len(formField) :
        /\ formField[i].id = FieldIdPool[1]
        /\ formField[i].type = "CHECKBOX"
        /\ formField[i].options = << OptA >>
        /\ ~formField[i].required

(***************************************************************************)
(* C15.  After a successful bulk order update of a form, the order values   *)
(* of the fields of the form are exactly 0, 1, ..., n-1, whatever order     *)
(* numbers the request carried.                                             *)
(***************************************************************************)
C15_ReorderRenumbersFromZero ==
  [][ (FieldRouteHandled("fields.PUT") /\ served'.res.status = 200)
      => OrdersOf(formField', served'.req.formId)
            = 0..(FieldCount(formField', served'.req.formId) - 1) ]_vars

(***************************************************************************)
(* C16.  The bulk order update is all or nothing: when an update of the     *)
(* batch fails, or the process stops in the middle of the batch, no order   *)
(* value has changed.                                                       *)
(***************************************************************************)
C16_FailedReorderChangesNothing ==
  [][ (/\ served.req.route = "fields.PUT"
       /\ served.pc = "transaction"
       /\ served'.pc = "done")
      => formField' = formField ]_vars

\* The second update of a batch named no field, and the first, which would
\* have moved 'plan' from 1 to 0, is not in the table.
C16_Witness ==
  /\ served.pc = "done"
  /\ served.req = FieldRequest("fields.PUT", "F1", "",
                     [fields |-> << [id |-> "plan", order |-> 0],
                                    [id |-> GhostField, order |-> 0] >>])
  /\ served.res.status = 500
  /\ \E i \in 1..Len(formField) : formField[i].id = "plan" /\ formField[i].order = 1

(***************************************************************************)
(* C18.  An operation that names a form or a field that does not exist      *)
(* returns 404 and leaves the store unchanged: field creation and the bulk  *)
(* order update on a missing form, the bulk order update that lists a       *)
(* missing field id, and GET, PUT and DELETE of a missing field.            *)
(***************************************************************************)
\* The request is well formed and names a form or a field that is not stored.
NamesMissingId(r) ==
  \/ /\ r.route = "fields.POST"
     /\ createFieldSchemaOk(r.body)
     /\ r.formId \notin DOMAIN form
  \/ /\ r.route = "fields.PUT"
     /\ "fields" \in DOMAIN r.body
     /\ \/ r.formId \notin DOMAIN form
        \/ \E k \in 1..Len(r.body.fields) :
              \A i \in 1..Len(formField) : formField[i].id # r.body.fields[k].id
  \/ /\ r.route \in {"field.GET", "field.DELETE"}
     /\ TargetField(formField, r) = {}
  \/ /\ r.route = "field.PUT"
     /\ updateFieldSchemaOk(r.body)
     /\ TargetField(formField, r) = {}

\* The served invocation replies in this step, where its lookup of the named
\* rows returns or the batch of the bulk order update ends.
LookupReplies ==
  /\ served'.pc = "done"
  /\ served'.res # NoReply
  /\ \/ served.pc = "findUnique" /\ served'.res.status # 500
     \/ At(First, "fields.PUT", "transaction")

C18_MissingIdIsNotFound ==
  [][ (LookupReplies /\ NamesMissingId(served.req))
      => /\ served'.res.status = 404
         /\ UNCHANGED << form, formField, formResponse, responseField >> ]_vars

(***************************************************************************)
(* C17.  A status update of a response (PUT /api/responses/[id]) and the    *)
(* bulk actions markAsRead, markAsFlagged and archive change only the       *)
(* status of the responses they name: every other attribute of those        *)
(* responses, their values and all other responses stay as they are; a      *)
(* bulk request with an unknown action changes nothing.                     *)
(***************************************************************************)
\* The request names the response with this id.
NamesResponse(r, id) ==
  \/ r.route = "response.PUT" /\ r.responseId = id
  \/ /\ r.route = "responses.bulk"
     /\ "responseIds" \in DOMAIN r.body
     /\ \E k \in 1..Len(r.body.responseIds) : r.body.responseIds[k] = id

BulkAction(r) == IF "action" \in DOMAIN r.body THEN r.body.action ELSE ""

\* This step is taken for a request of the dashboard that is not a delete:
\* its start or a step of its invocation.
DashboardStep(r) ==
  /\ \/ served.pc \in {"idle", "done"} /\ served'.req = r /\ served' # served
     \/ served.pc \notin {"idle", "done"} /\ served.req = r
  /\ \/ r.route = "response.PUT"
     \/ r.route = "responses.bulk" /\ BulkAction(r) # "delete"

C17_DashboardChangesStatusOnly ==
  [][ \A r \in DashboardRequests :
         DashboardStep(r)
         => /\ UNCHANGED << form, formField, responseField >>
            /\ Len(formResponse') = Len(formResponse)
            /\ \A i \in 1..Len(formResponse) :
                  /\ [formResponse'[i] EXCEPT !.status = formResponse[i].status]
                        = formResponse[i]
                  /\ ~NamesResponse(r, formResponse[i].id)
                        => formResponse'[i] = formResponse[i]
            /\ (/\ r.route = "responses.bulk"
                /\ BulkAction(r) \notin {"markAsRead", "markAsFlagged", "archive"})
               => formResponse' = formResponse ]_vars

\* The first response was archived in bulk: it keeps its form, its address
\* and its value, and the second response is still NEW.
C17_Witness ==
  /\ served.pc = "done"
  /\ served.req = ResponseRequest("responses.bulk", 0,
                                  [action |-> "archive", responseIds |-> << 1 >>])
  /\ served.res.status = 200
  /\ Len(formResponse) >= 2
  /\ formResponse[1] = [NewResponse(1, "F1", LowerEmail) EXCEPT !.status = "ARCHIVED"]
  /\ formResponse[2].status = "NEW"
  /\ \E i \in 1..Len(responseField) :
        responseField[i] = [responseId |-> 1, fieldId |-> "email", value |-> GoodAddress]

(***************************************************************************)
(* Vocabulary of the export.  A reply that carries the document is the      *)
(* reply 200 whose details are the rows of the text, the text split at the  *)
(* line breaks outside quotes; the rows that begin with '#' are the summary *)
(* of a single-form export, the first other row is the header and the rows  *)
(* after it are the data rows, one per exported response, the newest        *)
(* first.  The properties are stated for the exports that show the field    *)
(* columns alone: CSV, includeMetadata=false, no filter of the responses.   *)
(***************************************************************************)
\* The characters of the labels and type names that occur in header cells.
Text(s) ==
  CASE s = "Plan"  -> << "P", "l", "a", "n" >>
    [] s = "Email" -> << "E", "m", "a", "i", "l" >>
    [] s = "Size"  -> << "S", "i", "z", "e" >>
    [] s = "Tags"  -> << "T", "a", "g", "s" >>
    [] s = "Stars" -> << "S", "t", "a", "r", "s" >>
    [] s = "Name"  -> << "N", "a", "m", "e" >>
    [] s = "Note"  -> << "N", "o", "t", "e" >>
    [] s = "Score" -> << "S", "c", "o", "r", "e" >>
    [] s = "Intro" -> << "I", "n", "t", "r", "o" >>
    [] s = "New"   -> << "N", "e", "w" >>
    [] s = "DROPDOWN"   -> << "D", "R", "O", "P", "D", "O", "W", "N" >>
    [] s = "EMAIL"      -> << "E", "M", "A", "I", "L" >>
    [] s = "RADIO"      -> << "R", "A", "D", "I", "O" >>
    [] s = "CHECKBOX"   -> << "C", "H", "E", "C", "K", "B", "O", "X" >>
    [] s = "RATING"     -> << "R", "A", "T", "I", "N", "G" >>
    [] s = "SHORT_TEXT" -> << "S", "H", "O", "R", "T", "_", "T", "E", "X", "T" >>
    [] s = "LONG_TEXT"  -> << "L", "O", "N", "G", "_", "T", "E", "X", "T" >>
    [] s = "SECTION"    -> << "S", "E", "C", "T", "I", "O", "N" >>

\* The labels of the model as Array.prototype.sort() orders them.
LabelsSorted ==
  << "Email", "Intro", "Name", "New", "Note", "Plan", "Score", "Size", "Stars", "Tags" >>

\* value.replace(/"/g, '""')
RECURSIVE DoubleQuotes(_)
DoubleQuotes(value) ==
  IF value = Empty THEN Empty
  ELSE (IF Head(value) = Quote THEN << Quote, Quote >> ELSE << Head(value) >>)
       \o DoubleQuotes(Tail(value))

\* cells.join(delimiter)
RECURSIVE Join(_, _)
Join(cells, delimiter) ==
  IF cells = << >> THEN Empty
  ELSE IF Len(cells) = 1 THEN cells[1]
  ELSE cells[1] \o delimiter \o Join(Tail(cells), delimiter)

\* The header cell of a field in the single-form export: the label, with
\* the type in parentheses when the field types are asked for.
FormHeader(field, includeFieldTypes) ==
  IF includeFieldTypes
  THEN Text(field.label) \o << " ", "(" >> \o Text(field.type) \o << ")" >>
  ELSE Text(field.label)

\* The URL asks for the CSV text of all responses without metadata columns.
FieldColumnsAsked(params) ==
  /\ DOMAIN params \subseteq {"format", "includeMetadata", "fieldDelimiter",
                              "includeFieldTypes"}
  /\ "format" \in DOMAIN params /\ params.format = "csv"
  /\ "includeMetadata" \in DOMAIN params /\ params.includeMetadata = "false"

\* The delimiter the URL asks for, ',' when it names none.
DelimiterAsked(params) ==
  IF "fieldDelimiter" \in DOMAIN params THEN << params.fieldDelimiter >> ELSE << "," >>

\* The URL asks for the types of the fields in the header.
FieldTypesAsked(params) ==
  "includeFieldTypes" \in DOMAIN params /\ params.includeFieldTypes = "true"

\* The ids of the responses an export without filter includes, newest first:
\* all responses (formId = "") or those of one form.
ExportedIds(formId) ==
  LET Wanted(row) == formId = "" \/ row.formId = formId
      found == SelectSeq(formResponse, Wanted)
  IN  [i \in 1..Len(found) |-> found[Len(found) + 1 - i].id]

\* This step answers a request of an export route that asks for the field
\* columns of responses that are stored.
ExportAnswered ==
  /\ Answers("responses.export") \/ Answers("form.export")
  /\ FieldColumnsAsked(served'.req.params)
  /\ served'.req.route = "form.export" => served'.req.formId \in DOMAIN form
  /\ ExportedIds(served'.req.formId) # << >>

\* The header and the data rows of the document of a reply.
Table(reply) ==
  LET NoComment(row) == row = Empty \/ row[1] # "#"
  IN  SelectSeq(reply.details, NoComment)

\* A row split at the delimiter outside quotes: a delimiter separates cells
\* when an even number of quotes precedes it; a quoted cell loses its quotes
\* and its doubled quotes become single ones.
QuotesBefore(row, i) == Cardinality({j \in 1..(i - 1) : row[j] = Quote})

Separators(row, d) ==
  {i \in 1..Len(row) : row[i] = d /\ QuotesBefore(row, i) % 2 = 0}

\* The position of the k-th separator; 0 before the first and Len + 1 after
\* the last.
SeparatorAt(row, seps, k) ==
  IF k = 0 THEN 0
  ELSE IF k > Cardinality(seps) THEN Len(row) + 1
  ELSE CHOOSE i \in seps : Cardinality({j \in seps : j < i}) = k - 1

RECURSIVE SingleQuotes(_)
SingleQuotes(cell) ==
  IF cell = Empty THEN Empty
  ELSE IF Len(cell) >= 2 /\ cell[1] = Quote /\ cell[2] = Quote
       THEN << Quote >> \o SingleQuotes(Tail(Tail(cell)))
       ELSE << Head(cell) >> \o SingleQuotes(Tail(cell))

Unquoted(cell) ==
  IF Len(cell) >= 2 /\ cell[1] = Quote /\ cell[Len(cell)] = Quote
  THEN SingleQuotes(SubSeq(cell, 2, Len(cell) - 1))
  ELSE cell

SplitCsvRow(row, seps) ==
  [k \in 1..(Cardinality(seps) + 1) |->
     Unquoted(SubSeq(row, SeparatorAt(row, seps, k - 1) + 1,
                          SeparatorAt(row, seps, k) - 1))]

Cells(row, delimiter) == SplitCsvRow(row, Separators(row, delimiter[1]))

\* The stored value of a response for the field with this id, '' if none.
ValueOfField(responseId, fieldId) ==
  LET hits == {i \in 1..Len(responseField) :
                 /\ responseField[i].responseId = responseId
                 /\ responseField[i].fieldId = fieldId}
  IN  IF hits = {} THEN Empty ELSE responseField[CHOOSE i \in hits : TRUE].value

\* The stored value of a response under the label a header cell shows.
ValueUnderHeader(responseId, header) ==
  LET hits == {i \in 1..Len(responseField) :
                 /\ responseField[i].responseId = responseId
                 /\ \E j \in 1..Len(formField) :
                       /\ formField[j].id = responseField[i].fieldId
                       /\ Text(formField[j].label) = header}
  IN  IF hits = {} THEN Empty ELSE responseField[CHOOSE i \in hits : TRUE].value

\* The values a data row of the export stands for, column by column.
ExportedValues(r, headerRow, responseId) ==
  IF r.route = "responses.export"
  THEN [i \in 1..Len(Cells(headerRow, DelimiterAsked(r.params))) |->
          ValueUnderHeader(responseId, Cells(headerRow, DelimiterAsked(r.params))[i])]
  ELSE [i \in 1..Len(FormFields(r.formId)) |->
          ValueOfField(responseId, FormFields(r.formId)[i].id)]

\* Standard escaping of a cell for a delimiter.
StandardCell(value, delimiter) ==
  IF \E i \in 1..Len(value) : value[i] \in {delimiter[1], Quote, "\n"}
  THEN << Quote >> \o DoubleQuotes(value) \o << Quote >>
  ELSE value

\* A row of values with standard escaping of every cell.
StandardRow(values, delimiter) ==
  Join([i \in 1..Len(values) |-> StandardCell(values[i], delimiter)], delimiter)

(***************************************************************************)
(* C19.  The export round-trips: a request of the cross-form export or of   *)
(* the single-form export for stored responses is answered with a document  *)
(* that has one data row per response, and each data row, split at the      *)
(* delimiter with respect for quotes and with doubled quotes un-doubled,    *)
(* gives back the stored field values of its response exactly, also values  *)
(* with a comma, a quote or a newline.                                      *)
(***************************************************************************)
C19_ExportRoundTrips ==
  [][ ExportAnswered
      => /\ served'.res.status = 200
         /\ Len(Table(served'.res)) = Len(ExportedIds(served'.req.formId)) + 1
         /\ \A k \in 1..Len(ExportedIds(served'.req.formId)) :
               Cells(Table(served'.res)[k + 1], DelimiterAsked(served'.req.params))
                  = ExportedValues(served'.req, Table(served'.res)[1],
                                   ExportedIds(served'.req.formId)[k]) ]_vars

(***************************************************************************)
(* C20.  For every delimiter named by the fieldDelimiter parameter, the     *)
(* export is answered with a document in which a cell whose value contains  *)
(* the delimiter, a quote or a newline is in quotes with its quotes         *)
(* doubled and any other value is as it is stored, so that every row        *)
(* splits into as many columns as the header.                               *)
(***************************************************************************)
C20_CellsEscapedForDelimiter ==
  [][ (ExportAnswered /\ "fieldDelimiter" \in DOMAIN served'.req.params)
      => /\ served'.res.status = 200
         /\ \A k \in 1..Len(ExportedIds(served'.req.formId)) :
               /\ k + 1 <= Len(Table(served'.res))
               /\ Table(served'.res)[k + 1]
                     = StandardRow(ExportedValues(served'.req, Table(served'.res)[1],
                                                  ExportedIds(served'.req.formId)[k]),
                                   DelimiterAsked(served'.req.params))
               /\ Len(Cells(Table(served'.res)[k + 1], DelimiterAsked(served'.req.params)))
                     = Len(Cells(Table(served'.res)[1],
                                 DelimiterAsked(served'.req.params))) ]_vars

\* The labels of the fields the stored values of the exported responses
\* belong to, sorted.
LabelsOfExported(formId) ==
  LET ids == ExportedIds(formId)
      Occurs(label) ==
        \E v \in 1..Len(responseField) : \E j \in 1..Len(formField) :
           /\ \E k \in 1..Len(ids) : ids[k] = responseField[v].responseId
           /\ formField[j].id = responseField[v].fieldId
           /\ formField[j].label = label
  IN  SelectSeq(LabelsSorted, Occurs)

\* The header cells the columns of an export stand for.
ExpectedColumns(r) ==
  IF r.route = "responses.export"
  THEN [i \in 1..Len(LabelsOfExported(r.formId)) |->
          Text(LabelsOfExported(r.formId)[i])]
  ELSE [i \in 1..Len(FormFields(r.formId)) |->
          FormHeader(FormFields(r.formId)[i], FieldTypesAsked(r.params))]

\* The stored values a data row stands for under the expected columns.
ExpectedValues(r, responseId) ==
  IF r.route = "responses.export"
  THEN [i \in 1..Len(LabelsOfExported(r.formId)) |->
          ValueUnderHeader(responseId, Text(LabelsOfExported(r.formId)[i]))]
  ELSE [i \in 1..Len(FormFields(r.formId)) |->
          ValueOfField(responseId, FormFields(r.formId)[i].id)]

(***************************************************************************)
(* C21.  An export is answered with a document whose columns are, for the   *)
(* cross-form export, the distinct labels of the exported responses' values *)
(* in sorted order and, for the single-form export, the form's fields by    *)
(* ascending order; in every data row the cell under a column holds the     *)
(* response's stored value for that label or that field id, or the empty    *)
(* string when it has none.                                                 *)
(***************************************************************************)
C21_ColumnsAndCellsFollowStore ==
  [][ ExportAnswered
      => /\ served'.res.status = 200
         /\ Table(served'.res) # << >>
         /\ Cells(Table(served'.res)[1], DelimiterAsked(served'.req.params))
               = ExpectedColumns(served'.req)
         /\ \A k \in 1..Len(ExportedIds(served'.req.formId)) :
               \A i \in 1..Len(ExpectedColumns(served'.req)) :
                  /\ k + 1 <= Len(Table(served'.res))
                  /\ i <= Len(Cells(Table(served'.res)[k + 1],
                                    DelimiterAsked(served'.req.params)))
                  /\ Cells(Table(served'.res)[k + 1], DelimiterAsked(served'.req.params))[i]
                        = ExpectedValues(served'.req,
                                         ExportedIds(served'.req.formId)[k])[i] ]_vars

(***************************************************************************)
(* C23.  A response holds at most one value per field: no two stored values *)
(* share their response and their field, also after a payload with two      *)
(* non-blank entries of the same fieldId.                                   *)
(***************************************************************************)
C23_OneValuePerField ==
  \A i, j \in 1..Len(responseField) :
     (/\ responseField[i].responseId = responseField[j].responseId
      /\ responseField[i].fieldId = responseField[j].fieldId) => i = j

(***************************************************************************)
(* C24.  No two fields of the same form have the same order value, after    *)
(* any sequence of creates, updates, reorders and deletes of fields.        *)
(***************************************************************************)
C24_OrdersUniqueWithinForm ==
  \A i, j \in 1..Len(formField) :
     (/\ formField[i].formId = formField[j].formId
      /\ formField[i].order = formField[j].order) => i = j

(***************************************************************************)
(* C25.  When the limit has not cut the request short, a rejected           *)
(* submission carries every failure: one that fails a field check and also  *)
(* repeats a stored respondent email of a form that prevents duplicates is  *)
(* rejected with the duplicate-submission failure next to its field errors. *)
(***************************************************************************)
C25_DuplicateListedWithFieldErrors ==
  [][ (/\ SubmitHandled
       /\ OpenForSubmission(served'.req)
       /\ form[served'.req.formId].settings.preventDuplicates
       /\ served'.req.respondentEmail \notin {Undefined, Empty}
       /\ SameEmailStored(StoredAtArrival, served'.req.formId,
                          served'.req.respondentEmail)
       /\ validationErrors(FormFields(served'.req.formId), served'.req.fields) # << >>)
      => /\ served'.res.status = 400
         /\ \/ served'.res.error = AlreadySubmitted
            \/ \E d \in 1..Len(served'.res.details) :
                  served'.res.details[d].kind = "duplicate" ]_vars

\* The fields that do not belong to a form, in table order.
FieldsOutside(rows, formId) ==
  LET Foreign(f) == f.formId # formId
  IN  SelectSeq(rows, Foreign)

(***************************************************************************)
(* C26.  A reorder request PUT /api/forms/F/fields changes only fields of   *)
(* form F: whatever ids its body lists, every field of every other form     *)
(* keeps its order and all its other attributes.                            *)
(***************************************************************************)
C26_ReorderTouchesOwnFormOnly ==
  [][ Serving("fields.PUT")
      => FieldsOutside(formField', served.req.formId)
            = FieldsOutside(formField, served.req.formId) ]_vars

\* The fields of the form have pairwise different order values.
DistinctOrders(rows, formId) ==
  \A i, j \in 1..Len(rows) :
     (rows[i].formId = formId /\ rows[j].formId = formId
        /\ rows[i].order = rows[j].order) => i = j

\* The row of the field with this id.
FieldById(rows, id) == rows[CHOOSE i \in 1..Len(rows) : rows[i].id = id]

FieldIds(rows) == {rows[i].id : i \in 1..Len(rows)}

FieldIdsOf(rows, formId) ==
  {rows[i].id : i \in {j \in 1..Len(rows) : rows[j].formId = formId}}

(***************************************************************************)
(* C27.  A successful DELETE of a field of a form whose fields had distinct *)
(* orders removes exactly that field, leaves the remaining n fields of the  *)
(* form with the orders 0..n-1, and keeps their relative order.             *)
(***************************************************************************)
C27_DeleteRenumbersInOrder ==
  [][ /\ (Serving("field.DELETE") /\ served.pc = "delete" /\ served'.pc = "findMany")
         => \* db.formField.delete has returned: the field is gone, the
            \* others are as they were
            /\ served.req.fieldId \in FieldIdsOf(formField, served.req.formId)
            /\ FieldIds(formField') = FieldIds(formField) \ {served.req.fieldId}
            /\ Len(formField') = Len(formField) - 1
            /\ \A id \in FieldIds(formField') :
                  FieldById(formField', id) = FieldById(formField, id)
      /\ (Serving("field.DELETE") /\ served.pc \notin {"delete", "transaction"})
         => formField' = formField
      /\ (/\ FieldRouteHandled("field.DELETE")
          /\ served'.res.status = 200
          /\ DistinctOrders(formField, served'.req.formId))
         => /\ served.pc = "transaction"
            /\ FieldIds(formField') = FieldIds(formField)
            /\ Len(formField') = Len(formField)
            /\ served'.req.fieldId \notin FieldIds(formField')
            /\ OrdersOf(formField', served'.req.formId)
                  = 0..(FieldCount(formField', served'.req.formId) - 1)
            /\ DistinctOrders(formField', served'.req.formId)
            /\ \A a, b \in FieldIdsOf(formField', served'.req.formId) :
                  (FieldById(formField, a).order < FieldById(formField, b).order)
                     <=> (FieldById(formField', a).order < FieldById(formField', b).order)
            /\ FieldsOutside(formField', served'.req.formId)
                  = FieldsOutside(formField, served'.req.formId) ]_vars

\* A field was deleted from a form whose orders had a gap: the field 'email',
\* moved to the end before, is the last of the renumbered fields.
C27_Witness ==
  /\ served.pc = "done"
  /\ served.req.route = "field.DELETE" /\ served.res.status = 200
  /\ FieldCount(formField, served.req.formId) = 4
  /\ \E i \in 1..Len(formField) :
        /\ formField[i].id = "email" /\ formField[i].formId = served.req.formId
        /\ formField[i].order = 3

\* This step is a request of the key through the rate limiter.
LimiterHandled(key) == req' = RateLimitRequest(key) /\ now' = now

\* The count the store holds for a key, 0 when it holds none.
CountFor(store, key) == IF key \in DOMAIN store THEN store[key].count ELSE 0

\* The latest limit + 1 calls of the wrapped handler for a key do not fit
\* into an interval of windowMs milliseconds.
WindowRespected(key) ==
  Len(calls[key]) = limit + 1
     => calls[key][limit + 1] - calls[key][1] >= windowMs

(***************************************************************************)
(* C28.  withRateLimit(limit, windowMs) passes at most `limit` requests of  *)
(* one key to the wrapped handler within any interval of windowMs           *)
(* milliseconds; a request beyond that gets 429, the handler is not called  *)
(* for it, and it does not raise the count of the key.                      *)
(***************************************************************************)
C28_AtMostLimitPerWindow ==
  [][ \A key \in Keys :
         LimiterHandled(key)
         => /\ WindowRespected(key)'
            /\ res'.status = 429
                  => /\ calls' = calls
                     /\ CountFor(rateLimitStore', key) = CountFor(rateLimitStore, key) ]_allvars

(***************************************************************************)
(* C29.  A key that was refused with 429 is admitted again on its first     *)
(* request after its resetTime has passed, and its count starts again: the  *)
(* admitted request is the first of a new window.                           *)
(***************************************************************************)
C29_AdmittedAfterReset ==
  [][ \A key \in Keys :
         (/\ LimiterHandled(key)
          /\ req = RateLimitRequest(key) /\ res.status = 429
          /\ key \in DOMAIN rateLimitStore
          /\ now > rateLimitStore[key].resetTime)
         => /\ res'.status # 429
            /\ rateLimitStore'[key].count = 1 ]_allvars

\* All fields of the list have different ids.
DistinctIds(list) ==
  \A i, j \in 1..Len(list) : list[i].id = list[j].id => i = j

\* How often a field occurs in a list.
TimesIn(list, f) == Cardinality({i \in 1..Len(list) : list[i] = f})

\* Two lists hold the same fields, as often each.
SameFields(a, b) ==
  /\ Len(a) = Len(b)
  /\ \A i \in 1..Len(a) : TimesIn(a, a[i]) = TimesIn(b, a[i])

(***************************************************************************)
(* C30.  In the form builder all fields of the list have distinct ids       *)
(* after any drops, moves, deletes and settings updates, so a settings      *)
(* update changes one field only; a move keeps the fields and changes       *)
(* positions only; a delete removes exactly the field with the given id and *)
(* clears the selection when that field was selected.                       *)
(***************************************************************************)
C30_BuilderIdsDistinct ==
  [][ /\ DistinctIds(fields')
      /\ (selectedField # NoField /\ handleFieldUpdate(RequiredSet(selectedField)))
            => Cardinality({i \in 1..Len(fields) : fields[i].id = selectedField.id}) <= 1
      /\ \A fromIndex, toIndex \in -1..MaxFields :
            moveField(fromIndex, toIndex) => SameFields(fields, fields')
      /\ \A i \in 1..Len(fields) :
            deleteField(fields[i].id)
            => /\ Len(fields') = Len(fields) - 1
               /\ \A j \in 1..Len(fields') : fields'[j].id # fields[i].id
               /\ \A j \in 1..Len(fields) :
                     j # i => TimesIn(fields', fields[j]) = TimesIn(fields, fields[j])
               /\ selectedField.id = fields[i].id => selectedField' = NoField ]_allvars

====
